---- MODULE Spec2Model ----
(***************************************************************************)
(* Model of the JUML extraction core: the language extractors              *)
(* (utils/parser.py), the serialized-model loader (ManualInputParser),     *)
(* the structural model (utils/data_models.py) and the heuristic code      *)
(* analyzer (utils/code_analyzer.py).                                      *)
(*                                                                         *)
(* Source text is modelled as a sequence of tokens.  The text a token      *)
(* sequence stands for is its tokens joined by single spaces, with no      *)
(* leading or trailing space; the texts of the extractors are on one line, *)
(* those of the analyzer hold line-break tokens.  The regular expressions  *)
(* of the source are translated to matchers over such sequences: \w+ is a  *)
(* word token, \s+ is the space between two tokens, and a search for a     *)
(* one-character string such as '{' is a search for that token.            *)
(***************************************************************************)
EXTENDS Integers, Sequences, FiniteSets, TLC

VARIABLES pc, op, input, output, catalog

vars == <<pc, op, input, output, catalog>>

(***************************************************************************)
(* Generic helpers over token sequences.                                   *)
(***************************************************************************)

\* Tokens that are not \w+ words (each is one character of text).
Punct == {"{", "}", "(", ")", ";", ",", "=", ".", "+", "-", "*", "/", "@"}

\* re: \w+ matches exactly the word tokens.
IsWord(t) == t \notin Punct

\* A value for "no match group" / Python None.
None == "<None>"

\* str.find(tok, from) over tokens: first index >= from holding tok, 0 when
\* there is none (Python's -1).
Find(code, tok, from) ==
  IF \E i \in from..Len(code) : code[i] = tok
  THEN CHOOSE i \in from..Len(code) :
         code[i] = tok /\ \A j \in from..(i - 1) : code[j] # tok
  ELSE 0

\* str.split(sep) over tokens: the pieces between separator tokens.
RECURSIVE Split(_, _)
Split(s, sep) ==
  LET i == Find(s, sep, 1)
  IN IF i = 0 THEN <<s>>
     ELSE <<SubSeq(s, 1, i - 1)>> \o Split(SubSeq(s, i + 1, Len(s)), sep)

\* The pairs <<s, t>> of distinct tokens of the inputs where the text of s
\* occurs inside the text of t.
ProperSubstrings == {<<"x", "extends">>, <<"int", "interface">>}

\* str.find(name) over tokens: the first token whose text holds name, 0 when
\* there is none.
FindText(code, name) ==
  LET holds(t) == t = name \/ <<name, t>> \in ProperSubstrings
  IN IF \E i \in 1..Len(code) : holds(code[i])
     THEN CHOOSE i \in 1..Len(code) :
            holds(code[i]) /\ \A j \in 1..(i - 1) : ~holds(code[j])
     ELSE 0

\* Tokens whose text is a single character.
SingleChar == Punct \cup {"A", "B", "C", "x", "y", "0", "1", "5"}

\* Removing the last character of a text: a one-character token disappears,
\* a longer word loses its last letter and becomes another word, which is
\* no keyword and no declared name.
ChopLast(s) ==
  IF s = <<>> THEN <<>>
  ELSE IF s[Len(s)] \in SingleChar THEN SubSeq(s, 1, Len(s) - 1)
  ELSE SubSeq(s, 1, Len(s) - 1) \o <<"chopped_">>

(***************************************************************************)
(* utils/data_models.py                                                    *)
(***************************************************************************)

Attribute(name, type, visibility, is_static) ==
  [name |-> name, type |-> type, visibility |-> visibility,
   is_static |-> is_static]

Method(name, return_type, parameters, visibility, is_static, is_abstract) ==
  [name |-> name, return_type |-> return_type, parameters |-> parameters,
   visibility |-> visibility, is_static |-> is_static,
   is_abstract |-> is_abstract]

Relationship(source, target, type) ==
  [source |-> source, target |-> target, type |-> type,
   label |-> "", multiplicity |-> ""]

ClassDefinition(name, attributes, methods, is_abstract, is_interface, package) ==
  [name |-> name, attributes |-> attributes, methods |-> methods,
   is_abstract |-> is_abstract, is_interface |-> is_interface,
   package |-> package]

UMLDiagram(classes, relationships) ==
  [ok |-> TRUE, classes |-> classes, relationships |-> relationships]

\* A raised ValueError: no model is returned.
Raised(reason) == [ok |-> FALSE, error |-> reason]

(***************************************************************************)
(* JavaParser.parse                                                        *)
(***************************************************************************)

NoMatch == [found |-> FALSE]

\* One match of class_pattern starting at token i:
\*   (public|private|protected)? (abstract)? (class|interface) \w+
\*   (extends \w+)? (implements [^{]+)?
JavaClassMatchAt(code, i) ==
  LET n == Len(code)
      j == IF code[i] \in {"public", "private", "protected"} THEN i + 1 ELSE i
      hasAbs == j <= n /\ code[j] = "abstract"
      k == IF hasAbs THEN j + 1 ELSE j
  IN IF k + 1 <= n /\ code[k] \in {"class", "interface"} /\ IsWord(code[k + 1])
     THEN LET e == k + 2
              hasExt == e + 1 <= n /\ code[e] = "extends" /\ IsWord(code[e + 1])
              e2 == IF hasExt THEN e + 2 ELSE e
              hasImpl == e2 + 1 <= n /\ code[e2] = "implements"
                         /\ code[e2 + 1] # "{"
              brace == Find(code, "{", e2 + 1)
              e3 == IF hasImpl THEN (IF brace = 0 THEN n + 1 ELSE brace) ELSE e2
          IN [found |-> TRUE,
              start |-> i,
              end |-> e3,
              is_abstract |-> hasAbs,
              is_interface |-> (code[k] = "interface"),
              class_name |-> code[k + 1],
              extends |-> IF hasExt THEN code[e + 1] ELSE None,
              has_implements |-> hasImpl,
              implements |-> IF hasImpl THEN SubSeq(code, e2 + 1, e3 - 1)
                             ELSE <<>>]
     ELSE NoMatch

\* re.finditer(class_pattern, code): leftmost non-overlapping matches.
RECURSIVE JavaClassMatches(_, _)
JavaClassMatches(code, p) ==
  IF p > Len(code) THEN <<>>
  ELSE LET m == JavaClassMatchAt(code, p)
       IN IF m.found THEN <<m>> \o JavaClassMatches(code, m.end)
          ELSE JavaClassMatches(code, p + 1)

\* First pass: the set of declared class names.
JavaClassNames(code) ==
  LET ms == JavaClassMatches(code, 1)
  IN {ms[i].class_name : i \in 1..Len(ms)}

\* The implemented interfaces that are declared names, in order.
RECURSIVE JavaImplRels(_, _, _)
JavaImplRels(class_name, pieces, class_names) ==
  IF pieces = <<>> THEN <<>>
  ELSE LET piece == Head(pieces)
           known == Len(piece) = 1 /\ piece[1] \in class_names
       IN (IF known THEN <<Relationship(class_name, piece[1], "implementation")>>
           ELSE <<>>)
          \o JavaImplRels(class_name, Tail(pieces), class_names)

\* Mutant: the extends / implements names are recorded without looking
\* them up in the declared names.
JavaRelationshipsOf_Unfiltered(m, class_names) ==
  (IF m.extends # None
   THEN <<Relationship(m.class_name, m.extends, "inheritance")>>
   ELSE <<>>)
  \o (IF m.has_implements
      THEN JavaImplRels(m.class_name, Split(m.implements, ","),
                        class_names \cup {m.implements[i] : i \in 1..Len(m.implements)})
      ELSE <<>>)

\* Mutant: the implemented interfaces are recorded before the base class.
JavaRelationshipsOf_ImplFirst(m, class_names) ==
  (IF m.has_implements
   THEN JavaImplRels(m.class_name, Split(m.implements, ","), class_names)
   ELSE <<>>)
  \o (IF m.extends # None /\ m.extends \in class_names
      THEN <<Relationship(m.class_name, m.extends, "inheritance")>>
      ELSE <<>>)

\* The relationships one class declaration contributes.
JavaRelationshipsOf(m, class_names) ==
  (IF m.extends # None /\ m.extends \in class_names
   THEN <<Relationship(m.class_name, m.extends, "inheritance")>>
   ELSE <<>>)
  \o (IF m.has_implements
      THEN JavaImplRels(m.class_name, Split(m.implements, ","), class_names)
      ELSE <<>>)

\* The bracket-balancing loop: the position and count it stops with.
RECURSIVE BalanceBrackets(_, _, _)
BalanceBrackets(code, class_end, bracket_count) ==
  IF bracket_count > 0 /\ class_end <= Len(code)
  THEN BalanceBrackets(code, class_end + 1,
         IF code[class_end] = "{" THEN bracket_count + 1
         ELSE IF code[class_end] = "}" THEN bracket_count - 1
         ELSE bracket_count)
  ELSE [class_end |-> class_end, bracket_count |-> bracket_count]

\* code[class_start+1:class_end-1] for the class body opened at class_start.
SliceBody(code, class_start, b) ==
  LET upTo == SubSeq(code, class_start + 1, b.class_end - 1)
  IN IF b.bracket_count = 0 THEN SubSeq(upTo, 1, Len(upTo) - 1)
     ELSE ChopLast(upTo)

\* The body of the class opened at class_start, as the loop delimits it.
ClassBody(code, class_start) ==
  SliceBody(code, class_start, BalanceBrackets(code, class_start + 1, 1))

\* Where the class body opens: code.find('{', code.find(class_name)).
JavaClassStart(code, m) == Find(code, "{", FindText(code, m.class_name))

VisibilityOf(modifier) ==
  IF modifier = "private" THEN "-"
  ELSE IF modifier = "protected" THEN "#"
  ELSE "+"

\* The end of  \s*(?:=\s*[^;]+)?;  from token m: the index after the ';',
\* 0 when it does not match.
JavaAttrTail(body, m) ==
  IF m > Len(body) THEN 0
  ELSE IF body[m] = ";" THEN m + 1
  ELSE IF body[m] = "=" /\ Find(body, ";", m + 1) # 0
       THEN Find(body, ";", m + 1) + 1
  ELSE 0

\* (static\s+)?(final\s+)?(\w+)\s+(\w+)\s*(?:=\s*[^;]+)?;  from token k with
\* `skip` optional keywords taken.
JavaAttrRestWith(body, k, skip, is_static) ==
  LET t == k + skip
  IN IF t + 1 <= Len(body) /\ IsWord(body[t]) /\ IsWord(body[t + 1])
        /\ JavaAttrTail(body, t + 2) # 0
     THEN [found |-> TRUE, is_static |-> is_static, type |-> body[t],
           name |-> body[t + 1], end |-> JavaAttrTail(body, t + 2)]
     ELSE NoMatch

\* The optional keywords are greedy and given back on failure, in the
\* order the regex engine tries them.
JavaAttrRest(body, k) ==
  LET n == Len(body)
      st == k <= n /\ body[k] = "static"
      stfin == st /\ k + 1 <= n /\ body[k + 1] = "final"
      fin == k <= n /\ body[k] = "final"
      a == IF stfin THEN JavaAttrRestWith(body, k, 2, TRUE) ELSE NoMatch
      b == IF st THEN JavaAttrRestWith(body, k, 1, TRUE) ELSE NoMatch
      c == IF fin THEN JavaAttrRestWith(body, k, 1, FALSE) ELSE NoMatch
      d == JavaAttrRestWith(body, k, 0, FALSE)
  IN IF a.found THEN a ELSE IF b.found THEN b ELSE IF c.found THEN c ELSE d

\* One match of attr_pattern at token i: first from the space before the
\* token (no modifier group), then from the token itself as the modifier.
JavaAttrMatchAt(body, i) ==
  LET plain == JavaAttrRest(body, i)
      withMod == IF body[i] \in {"public", "private", "protected"}
                 THEN JavaAttrRest(body, i + 1) ELSE NoMatch
  IN IF plain.found
     THEN [found |-> TRUE, end |-> plain.end,
           attr |-> Attribute(plain.name, plain.type, "+", plain.is_static)]
     ELSE IF withMod.found
     THEN [found |-> TRUE, end |-> withMod.end,
           attr |-> Attribute(withMod.name, withMod.type,
                              VisibilityOf(body[i]), withMod.is_static)]
     ELSE NoMatch

\* re.finditer(attr_pattern, class_body), as the attributes appended.
RECURSIVE JavaAttributes(_, _)
JavaAttributes(body, p) ==
  IF p > Len(body) THEN <<>>
  ELSE LET m == JavaAttrMatchAt(body, p)
       IN IF m.found THEN <<m.attr>> \o JavaAttributes(body, m.end)
          ELSE JavaAttributes(body, p + 1)

\* The parameters of params_str: split on ',', a piece with a space in it
\* gives type (first part) and name (second part).
RECURSIVE JavaParams(_)
JavaParams(pieces) ==
  IF pieces = <<>> THEN <<>>
  ELSE LET param == Head(pieces)
       IN (IF Len(param) >= 2
           THEN <<[name |-> param[2], type |-> param[1]]>>
           ELSE <<>>)
          \o JavaParams(Tail(pieces))

\* The ')' closing (.*?) : the first one at or after q followed by '{' or ';'.
RECURSIVE JavaParamsClose(_, _)
JavaParamsClose(body, q) ==
  IF q + 1 > Len(body) THEN 0
  ELSE IF body[q] = ")" /\ body[q + 1] \in {"{", ";"} THEN q
  ELSE JavaParamsClose(body, q + 1)

\* (static\s+)?(abstract\s+)?(\w+)\s+(\w+)\s*\((.*?)\)\s*(?:\{|;)  from
\* token k with `skip` optional keywords taken.
JavaMethodRestWith(body, k, skip, is_static, is_abstract) ==
  LET t == k + skip
      q == JavaParamsClose(body, t + 3)
  IN IF t + 2 <= Len(body) /\ IsWord(body[t]) /\ IsWord(body[t + 1])
        /\ body[t + 2] = "(" /\ q # 0
     THEN [found |-> TRUE, is_static |-> is_static,
           is_abstract |-> is_abstract, return_type |-> body[t],
           name |-> body[t + 1], params |-> SubSeq(body, t + 3, q - 1),
           end |-> q + 2]
     ELSE NoMatch

JavaMethodRest(body, k) ==
  LET n == Len(body)
      st == k <= n /\ body[k] = "static"
      stab == st /\ k + 1 <= n /\ body[k + 1] = "abstract"
      ab == k <= n /\ body[k] = "abstract"
      a == IF stab THEN JavaMethodRestWith(body, k, 2, TRUE, TRUE) ELSE NoMatch
      b == IF st THEN JavaMethodRestWith(body, k, 1, TRUE, FALSE) ELSE NoMatch
      c == IF ab THEN JavaMethodRestWith(body, k, 1, FALSE, TRUE) ELSE NoMatch
      d == JavaMethodRestWith(body, k, 0, FALSE, FALSE)
  IN IF a.found THEN a ELSE IF b.found THEN b ELSE IF c.found THEN c ELSE d

\* One match of method_pattern at token i.
JavaMethodMatchAt(body, i) ==
  LET plain == JavaMethodRest(body, i)
      withMod == IF body[i] \in {"public", "private", "protected"}
                 THEN JavaMethodRest(body, i + 1) ELSE NoMatch
      r == IF plain.found THEN plain ELSE withMod
      vis == IF plain.found THEN "+" ELSE VisibilityOf(body[i])
  IN IF r.found
     THEN [found |-> TRUE, end |-> r.end,
           method |-> Method(r.name, r.return_type,
                             IF r.params = <<>> THEN <<>>
                             ELSE JavaParams(Split(r.params, ",")),
                             vis, r.is_static, r.is_abstract)]
     ELSE NoMatch

\* re.finditer(method_pattern, class_body), as the methods appended.
RECURSIVE JavaMethods(_, _)
JavaMethods(body, p) ==
  IF p > Len(body) THEN <<>>
  ELSE LET m == JavaMethodMatchAt(body, p)
       IN IF m.found THEN <<m.method>> \o JavaMethods(body, m.end)
          ELSE JavaMethods(body, p + 1)

\* The ClassDefinition built for one declaration whose body was found.
JavaClassOf(m, class_body) ==
  ClassDefinition(m.class_name, JavaAttributes(class_body, 1),
                  JavaMethods(class_body, 1), m.is_abstract, m.is_interface,
                  "")

JavaClassDef(code, m) == JavaClassOf(m, ClassBody(code, JavaClassStart(code, m)))

\* The extraction in one pass: a relationship is classified with the
\* names of the declarations read so far.
RECURSIVE JavaSecondPass_SinglePass(_, _, _, _)
JavaSecondPass_SinglePass(code, ms, i, class_names) ==
  IF i > Len(ms) THEN [classes |-> <<>>, relationships |-> <<>>]
  ELSE LET m == ms[i]
           rest == JavaSecondPass_SinglePass(code, ms, i + 1, class_names)
           rels == JavaRelationshipsOf(m, {ms[k].class_name : k \in 1..i})
       IN [classes |->
             (IF JavaClassStart(code, m) = 0 THEN <<>>
              ELSE <<JavaClassDef(code, m)>>) \o rest.classes,
           relationships |-> rels \o rest.relationships]

\* Second pass over the declarations ms[i..]: relationships are appended
\* before the body is looked for; a declaration with no '{' after its name
\* is skipped (continue) after its relationships were appended.
RECURSIVE JavaSecondPass(_, _, _, _)
JavaSecondPass(code, ms, i, class_names) ==
  IF i > Len(ms) THEN [classes |-> <<>>, relationships |-> <<>>]
  ELSE LET m == ms[i]
           rest == JavaSecondPass(code, ms, i + 1, class_names)
           rels == JavaRelationshipsOf(m, class_names)
       IN [classes |->
             (IF JavaClassStart(code, m) = 0 THEN <<>>
              ELSE <<JavaClassDef(code, m)>>) \o rest.classes,
           relationships |-> rels \o rest.relationships]

\* The extractor that treats a text without a declaration as an error.
JavaParser_parse_NoMatchFails(code) ==
  LET ms == JavaClassMatches(code, 1)
      r == JavaSecondPass(code, ms, 1, JavaClassNames(code))
  IN IF ms = <<>> THEN Raised("Error parsing Java code")
     ELSE UMLDiagram(r.classes, r.relationships)

JavaParser_parse(code) ==
  LET ms == JavaClassMatches(code, 1)
      r == JavaSecondPass(code, ms, 1, JavaClassNames(code))
  IN UMLDiagram(r.classes, r.relationships)

(***************************************************************************)
(* PythonParser.parse                                                      *)
(*                                                                         *)
(* The input is what ast.parse gives: either a syntax error, or a module   *)
(* whose body is a sequence of statement nodes.  Nodes are records with a  *)
(* `kind` (the ast class); an absent optional child has kind "Absent".     *)
(***************************************************************************)

\* The spelling of the identifiers of the inputs, for startswith/endswith.
Spelling(id) ==
  CASE id = "_x" -> <<"_", "x">>
    [] id = "__x" -> <<"_", "_", "x">>
    [] id = "__x__" -> <<"_", "_", "x", "_", "_">>
    [] id = "__init__" -> <<"_", "_", "i", "n", "i", "t", "_", "_">>
    [] id = "_" -> <<"_">>
    [] id = "__" -> <<"_", "_">>
    [] OTHER -> <<id>>

\* str.startswith / str.endswith
StartsWith(id, prefix) ==
  LET sp == Spelling(id)
  IN Len(sp) >= Len(prefix) /\ SubSeq(sp, 1, Len(prefix)) = prefix

EndsWith(id, suffix) ==
  LET sp == Spelling(id)
  IN Len(sp) >= Len(suffix)
     /\ SubSeq(sp, Len(sp) - Len(suffix) + 1, Len(sp)) = suffix

IsName(e) == e.kind = "Name"

\* The child nodes of the nodes of one level that ast.walk visits next: the
\* statements of the bodies of the class definitions, in order.
RECURSIVE PyChildren(_)
PyChildren(nodes) ==
  IF nodes = <<>> THEN <<>>
  ELSE (IF Head(nodes).kind = "ClassDef" THEN Head(nodes).body ELSE <<>>)
       \o PyChildren(Tail(nodes))

\* ast.walk(tree) restricted to statement nodes: breadth first, a level
\* after the level of its parents.
RECURSIVE PyWalk(_)
PyWalk(level) ==
  IF level = <<>> THEN <<>> ELSE level \o PyWalk(PyChildren(level))

\* The ClassDef nodes of a node sequence, in order.
PyClassDefsIn(nodes) == SelectSeq(nodes, LAMBDA nd : nd.kind = "ClassDef")

\* First pass: the names of all class definitions of the tree.
PyClassNames(tree) ==
  LET cs == PyClassDefsIn(PyWalk(tree))
  IN {cs[i].name : i \in 1..Len(cs)}

\* The inheritance relationships of one class definition.
RECURSIVE PyBaseRels(_, _, _)
PyBaseRels(name, bases, class_names) ==
  IF bases = <<>> THEN <<>>
  ELSE (IF IsName(Head(bases)) /\ Head(bases).id \in class_names
        THEN <<Relationship(name, Head(bases).id, "inheritance")>>
        ELSE <<>>)
       \o PyBaseRels(name, Tail(bases), class_names)

\* Visibility of an attribute by its name.
PyAttrVisibility(id) ==
  IF StartsWith(id, <<"_", "_">>) THEN "-"
  ELSE IF StartsWith(id, <<"_">>) THEN "#"
  ELSE "+"

\* Visibility of a method by its name.
PyMethodVisibility(id) ==
  IF StartsWith(id, <<"_", "_">>) /\ ~EndsWith(id, <<"_", "_">>) THEN "-"
  ELSE IF StartsWith(id, <<"_">>) THEN "#"
  ELSE "+"

\* type_name of an annotated attribute.
PyTypeName(annotation) ==
  IF IsName(annotation) THEN annotation.id
  ELSE IF annotation.kind = "Subscript" /\ IsName(annotation.value)
       THEN annotation.value.id \o "[...]"
  ELSE ""

\* The attributes of the Name targets of an assignment.
RECURSIVE PyAssignAttrs(_)
PyAssignAttrs(targets) ==
  IF targets = <<>> THEN <<>>
  ELSE (IF IsName(Head(targets))
        THEN <<Attribute(Head(targets).id, "",
                         PyAttrVisibility(Head(targets).id), FALSE)>>
        ELSE <<>>)
       \o PyAssignAttrs(Tail(targets))

\* The recorded parameters: self and cls are left out.
RECURSIVE PyParams(_)
PyParams(args) ==
  IF args = <<>> THEN <<>>
  ELSE LET a == Head(args)
       IN (IF a.arg # "self" /\ a.arg # "cls"
           THEN <<[name |-> a.arg,
                   type |-> IF IsName(a.annotation) THEN a.annotation.id
                            ELSE ""]>>
           ELSE <<>>)
          \o PyParams(Tail(args))

PyHasDecorator(decorator_list, id) ==
  \E i \in 1..Len(decorator_list) :
     IsName(decorator_list[i]) /\ decorator_list[i].id = id

PyReturnType(returns) ==
  IF IsName(returns) THEN returns.id
  ELSE IF returns.kind = "Constant" /\ returns.value = "None" THEN "None"
  ELSE ""

PyMethod(item) ==
  Method(item.name, PyReturnType(item.returns), PyParams(item.args),
         PyMethodVisibility(item.name),
         PyHasDecorator(item.decorator_list, "staticmethod"),
         PyHasDecorator(item.decorator_list, "abstractmethod"))

\* The attributes the statements of a class body give, in order.
RECURSIVE PyAttributes(_)
PyAttributes(body) ==
  IF body = <<>> THEN <<>>
  ELSE LET item == Head(body)
       IN (IF item.kind = "AnnAssign" /\ IsName(item.target)
           THEN <<Attribute(item.target.id, PyTypeName(item.annotation),
                            PyAttrVisibility(item.target.id), FALSE)>>
           ELSE IF item.kind = "Assign" THEN PyAssignAttrs(item.targets)
           ELSE <<>>)
          \o PyAttributes(Tail(body))

\* The methods the statements of a class body give, in order.  An
\* annotated assignment whose target is no Name is tried as Assign and as
\* FunctionDef and is neither.
RECURSIVE PyMethods(_)
PyMethods(body) ==
  IF body = <<>> THEN <<>>
  ELSE (IF Head(body).kind = "FunctionDef" THEN <<PyMethod(Head(body))>>
        ELSE <<>>)
       \o PyMethods(Tail(body))

PyClassDef(node) ==
  ClassDefinition(node.name, PyAttributes(node.body), PyMethods(node.body),
                  PyHasDecorator(node.decorator_list, "abstractmethod"),
                  FALSE, "")

\* Second pass: a ClassDefinition and the relationships of every class
\* definition, in the order of the walk.
RECURSIVE PySecondPass(_, _)
PySecondPass(nodes, class_names) ==
  IF nodes = <<>> THEN [classes |-> <<>>, relationships |-> <<>>]
  ELSE LET node == Head(nodes)
           rest == PySecondPass(Tail(nodes), class_names)
       IN [classes |-> <<PyClassDef(node)>> \o rest.classes,
           relationships |->
             PyBaseRels(node.name, node.bases, class_names)
             \o rest.relationships]

\* The extractor that returns the classes read before a syntax error.
PythonParser_parse_Partial(code) ==
  LET r == PySecondPass(PyClassDefsIn(PyWalk(code.body)),
                        PyClassNames(code.body))
  IN UMLDiagram(r.classes, r.relationships)

PythonParser_parse(code) ==
  IF ~code.syntax_ok THEN Raised("Error parsing Python code")
  ELSE LET r == PySecondPass(PyClassDefsIn(PyWalk(code.body)),
                             PyClassNames(code.body))
       IN UMLDiagram(r.classes, r.relationships)

(***************************************************************************)
(* JavaScriptParser.parse                                                  *)
(*                                                                         *)
(* A member access this.<name> is one token, written "this.x"; its last    *)
(* \w+ run is the name.                                                    *)
(***************************************************************************)

\* The member-access tokens and the attribute name each one holds.
ThisTokens == {"this.x", "this.y"}

ThisField(t) == IF t = "this.x" THEN "x" ELSE "y"

\* The tokens that are one \w+ run.
IsJSWord(t) == IsWord(t) /\ t \notin ThisTokens

\* The \w+ run a token ends with (the whole token for a word).
LastWord(t) == IF t \in ThisTokens THEN ThisField(t) ELSE t

\* One match of  class\s+(\w+)(?:\s+extends\s+(\w+))?\s*\{  at token i.
JSClassMatchAt(code, i) ==
  LET n == Len(code)
      named == i + 1 <= n /\ code[i] = "class" /\ IsJSWord(code[i + 1])
      hasExt == named /\ i + 3 <= n /\ code[i + 2] = "extends"
                /\ IsJSWord(code[i + 3])
      b == IF hasExt THEN i + 4 ELSE i + 2
  IN IF named /\ b <= n /\ code[b] = "{"
     THEN [found |-> TRUE, start |-> i, end |-> b + 1,
           class_name |-> code[i + 1],
           extends |-> IF hasExt THEN code[i + 3] ELSE None]
     ELSE NoMatch

\* re.finditer(class_pattern, code)
RECURSIVE JSClassMatches(_, _)
JSClassMatches(code, p) ==
  IF p > Len(code) THEN <<>>
  ELSE LET m == JSClassMatchAt(code, p)
       IN IF m.found THEN <<m>> \o JSClassMatches(code, m.end)
          ELSE JSClassMatches(code, p + 1)

\* The text of a token sequence: its tokens joined by single spaces.
RECURSIVE JoinTokens(_)
JoinTokens(s) ==
  IF s = <<>> THEN ""
  ELSE IF Len(s) = 1 THEN s[1]
  ELSE s[1] \o " " \o JoinTokens(Tail(s))

\* The parameters of a method: split on ',', empty pieces dropped, a
\* default value (from '=' on) removed.
RECURSIVE JSParams(_)
JSParams(pieces) ==
  IF pieces = <<>> THEN <<>>
  ELSE LET param == Head(pieces)
           eq == Find(param, "=", 1)
           name == IF eq = 0 THEN param ELSE SubSeq(param, 1, eq - 1)
       IN (IF param # <<>>
           THEN <<[name |-> JoinTokens(name), type |-> ""]>>
           ELSE <<>>)
          \o JSParams(Tail(pieces))

\* The words the name search gives "get" or "set" for: (?:get|set|\w+)
\* takes its first alternative that matches at the start of the word.
GetWords == {"get", "getName"}

SetWords == {"set", "setName"}

NameHead(w) ==
  IF w \in GetWords THEN "get" ELSE IF w \in SetWords THEN "set" ELSE w

\* method_name for a matched method_def (a token sequence), by
\*   re.search(r'(?:static\s+)?(?:async\s+)?(?:get|set|\w+)', method_def)
\* followed by the removal of 'static' and 'async' from the match.
JSMethodName(method_def) ==
  LET st == Len(method_def) >= 2 /\ method_def[1] = "static"
            /\ IsJSWord(method_def[2])
      a == IF st THEN 2 ELSE 1
      as == Len(method_def) >= a + 1 /\ method_def[a] = "async"
            /\ IsJSWord(method_def[a + 1])
      w == IF as THEN a + 1 ELSE a
      head == NameHead(LastWord(method_def[w]))
  IN IF \E i \in 1..Len(method_def) : method_def[i] = "constructor"
     THEN "constructor"
     ELSE IF head \in {"static", "async"} THEN "" ELSE head

\* One match of method_pattern
\*   (?:static\s+)?(?:async\s+)?(?:get|set|constructor|\w+)\s*\([^)]*\)\s*\{
\* whose first token is token i, taking `skip` optional keywords.
JSMethodMatchWith(body, i, skip) ==
  LET w == i + skip
      close == Find(body, ")", w + 2)
  IN IF w + 1 <= Len(body)
        /\ (IF skip = 0 THEN IsWord(body[w]) ELSE IsJSWord(body[w]))
        /\ body[w + 1] = "(" /\ close # 0 /\ close + 1 <= Len(body)
        /\ body[close + 1] = "{"
     THEN [found |-> TRUE, end |-> close + 2,
           method_def |-> (IF skip = 0 THEN <<LastWord(body[i])>>
                           ELSE SubSeq(body, i, w))
                          \o SubSeq(body, w + 1, close + 1),
           params |-> SubSeq(body, w + 2, close - 1)]
     ELSE NoMatch

JSMethodMatchAt(body, i) ==
  LET n == Len(body)
      st == body[i] = "static"
      stas == st /\ i + 1 <= n /\ body[i + 1] = "async"
      as == body[i] = "async"
      a == IF stas THEN JSMethodMatchWith(body, i, 2) ELSE NoMatch
      b == IF st \/ as THEN JSMethodMatchWith(body, i, 1) ELSE NoMatch
      c == JSMethodMatchWith(body, i, 0)
      r == IF a.found THEN a ELSE IF b.found THEN b ELSE c
  IN IF r.found
     THEN [found |-> TRUE, end |-> r.end,
           method |-> Method(JSMethodName(r.method_def), "",
                        JSParams(Split(r.params, ",")), "+",
                        \E k \in 1..Len(r.method_def) : r.method_def[k] = "static",
                        FALSE)]
     ELSE NoMatch

\* re.finditer(method_pattern, class_body), as the methods appended.
RECURSIVE JSMethods(_, _)
JSMethods(body, p) ==
  IF p > Len(body) THEN <<>>
  ELSE LET m == JSMethodMatchAt(body, p)
       IN IF m.found THEN <<m.method>> \o JSMethods(body, m.end)
          ELSE JSMethods(body, p + 1)

\* group(1) of re.search(constructor_pattern, class_body): the tokens after
\* the constructor's '{' up to the first '}' or the end; found is FALSE
\* when there is no match.
RECURSIVE JSConstructorBody(_, _)
JSConstructorBody(body, p) ==
  IF p > Len(body) THEN NoMatch
  ELSE LET close == Find(body, ")", p + 2)
           matches == body[p] = "constructor" /\ p + 1 <= Len(body)
                      /\ body[p + 1] = "(" /\ close # 0
                      /\ close + 1 <= Len(body) /\ body[close + 1] = "{"
           stop == Find(body, "}", close + 2)
       IN IF matches
          THEN [found |-> TRUE,
                text |-> SubSeq(body, close + 2,
                                IF stop = 0 THEN Len(body) ELSE stop - 1)]
          ELSE JSConstructorBody(body, p + 1)

\* re.finditer(r'this\.(\w+)\s*=', constructor_body)
RECURSIVE JSThisAttributes(_, _)
JSThisAttributes(text, p) ==
  IF p + 1 > Len(text) THEN <<>>
  ELSE IF text[p] \in ThisTokens /\ text[p + 1] = "="
  THEN <<Attribute(ThisField(text[p]), "", "+", FALSE)>>
       \o JSThisAttributes(text, p + 2)
  ELSE JSThisAttributes(text, p + 1)

\* re.finditer(r'static\s+(\w+)\s*=', class_body)
RECURSIVE JSStaticAttributes(_, _)
JSStaticAttributes(body, p) ==
  IF p + 2 > Len(body) THEN <<>>
  ELSE IF body[p] = "static" /\ IsJSWord(body[p + 1]) /\ body[p + 2] = "="
  THEN <<Attribute(body[p + 1], "", "+", TRUE)>>
       \o JSStaticAttributes(body, p + 3)
  ELSE JSStaticAttributes(body, p + 1)

\* The ClassDefinition built for one class match.
JSClassOf(m, class_body) ==
  LET ctor == JSConstructorBody(class_body, 1)
  IN ClassDefinition(m.class_name,
       (IF ctor.found THEN JSThisAttributes(ctor.text, 1) ELSE <<>>)
         \o JSStaticAttributes(class_body, 1),
       JSMethods(class_body, 1), FALSE, FALSE, "")

\* Where the class body opens: code.find('{', match.start()).
JSClassStart(code, m) == Find(code, "{", m.start)

JSClassDef(code, m) == JSClassOf(m, ClassBody(code, JSClassStart(code, m)))

\* The single pass over the class matches: an extends name is recorded as
\* an inheritance relationship whenever it is present.
RECURSIVE JSPass(_, _, _)
JSPass(code, ms, i) ==
  IF i > Len(ms) THEN [classes |-> <<>>, relationships |-> <<>>]
  ELSE LET m == ms[i]
           rest == JSPass(code, ms, i + 1)
       IN [classes |-> <<JSClassDef(code, m)>> \o rest.classes,
           relationships |->
             (IF m.extends # None
              THEN <<Relationship(m.class_name, m.extends, "inheritance")>>
              ELSE <<>>) \o rest.relationships]

JavaScriptParser_parse(code) ==
  LET r == JSPass(code, JSClassMatches(code, 1), 1)
  IN UMLDiagram(r.classes, r.relationships)

(***************************************************************************)
(* get_parser                                                              *)
(***************************************************************************)
\* A language identifier is the sequence of its characters.
LowerCase ==
  <<"a", "b", "c", "g", "h", "i", "j", "n", "o", "p", "r", "s", "t", "u", "v",
    "y">>

UpperCase ==
  <<"A", "B", "C", "G", "H", "I", "J", "N", "O", "P", "R", "S", "T", "U", "V",
    "Y">>

\* str.lower() on one character: an upper-case letter becomes its
\* lower-case letter, every other character is kept.
LowerChar(c) ==
  IF \E k \in 1..Len(UpperCase) : UpperCase[k] = c
  THEN LowerCase[CHOOSE k \in 1..Len(UpperCase) : UpperCase[k] = c]
  ELSE c

Lower(language) == [k \in 1..Len(language) |-> LowerChar(language[k])]

\* The dictionary built by each call: one new extractor per language.
parsers ==
  [key \in {<<"p", "y", "t", "h", "o", "n">>, <<"j", "a", "v", "a">>,
            <<"j", "a", "v", "a", "s", "c", "r", "i", "p", "t">>} |->
     CASE key = <<"p", "y", "t", "h", "o", "n">> -> "PythonParser"
       [] key = <<"j", "a", "v", "a">> -> "JavaParser"
       [] OTHER -> "JavaScriptParser"]

\* The selection that compares the identifier as it is written.
get_parser_CaseSensitive(language) ==
  IF language \in DOMAIN parsers THEN parsers[language] ELSE None

\* parsers.get(language.lower(), None)
get_parser(language) ==
  IF Lower(language) \in DOMAIN parsers THEN parsers[Lower(language)]
  ELSE None

(***************************************************************************)
(* A run of an extractor.  The only data of a run that its input does not  *)
(* fix is the iteration order of the set class_names, which depends on the *)
(* string hashing of the process (seed); the extractors test the set for   *)
(* membership and never iterate over it.                                   *)
(***************************************************************************)
Parse(language, code) ==
  CASE language = "java" -> JavaParser_parse(code)
    [] language = "python" -> PythonParser_parse(code)
    [] language = "javascript" -> JavaScriptParser_parse(code)

Reversed(s) == [k \in 1..Len(s) |-> s[Len(s) + 1 - k]]

\* The run that emits the relationships in the iteration order of the set.
RunParser_SetOrder(language, code, seed) ==
  LET d == Parse(language, code)
  IN IF d.ok /\ seed = "descending"
     THEN [d EXCEPT !.relationships = Reversed(d.relationships)]
     ELSE d

RunParser(language, code, seed) == Parse(language, code)

(***************************************************************************)
(* ManualInputParser.parse and the serialization of a model                *)
(*                                                                         *)
(* A JSON document is modelled after json.loads: an object is a record     *)
(* whose fields are the keys present, an array is a sequence, and a scalar *)
(* is tagged with its JSON type.  The field validation is pydantic's (v2,  *)
(* the version with model_dump): a str field takes a JSON string only, a   *)
(* bool field a JSON boolean, an Optional[str] field a string or null;     *)
(* keys that are no field are ignored.                                     *)
(***************************************************************************)

JStr(s) == [t |-> "str", v |-> s]

JBool(b) == [t |-> "bool", v |-> b]

JNum(n) == [t |-> "num", v |-> n]

JNull == [t |-> "null"]

Invalid == [ok |-> FALSE]

Valid(v) == [ok |-> TRUE, v |-> v]

\* A required field of type str.
RequiredStr(obj, key) ==
  IF key \in DOMAIN obj /\ obj[key].t = "str" THEN Valid(obj[key].v)
  ELSE Invalid

\* A field of type str with a default.
OptionalStr(obj, key, default) ==
  IF key \notin DOMAIN obj THEN Valid(default)
  ELSE IF obj[key].t = "str" THEN Valid(obj[key].v)
  ELSE Invalid

\* A field of type bool with a default.
OptionalBool(obj, key, default) ==
  IF key \notin DOMAIN obj THEN Valid(default)
  ELSE IF obj[key].t = "bool" THEN Valid(obj[key].v)
  ELSE Invalid

\* A field of type Optional[str] with a default.
OptionalStrOrNone(obj, key, default) ==
  IF key \notin DOMAIN obj THEN Valid(default)
  ELSE IF obj[key].t = "str" THEN Valid(obj[key].v)
  ELSE IF obj[key].t = "null" THEN Valid(None)
  ELSE Invalid

\* dict.get(key, []) for a key holding a list
GetList(obj, key) == IF key \in DOMAIN obj THEN obj[key] ELSE <<>>

\* Attribute(**attr)
LoadAttribute(attr) ==
  LET name == RequiredStr(attr, "name")
      type == OptionalStr(attr, "type", "")
      visibility == OptionalStr(attr, "visibility", "+")
      is_static == OptionalBool(attr, "is_static", FALSE)
  IN IF name.ok /\ type.ok /\ visibility.ok /\ is_static.ok
     THEN Valid(Attribute(name.v, type.v, visibility.v, is_static.v))
     ELSE Invalid

\* One element of parameters: List[Dict[str, str]].
LoadParameter(param) ==
  IF \A k \in DOMAIN param : param[k].t = "str"
  THEN Valid([k \in DOMAIN param |-> param[k].v])
  ELSE Invalid

Kept(result) == result.ok

\* Mutant: entries that fail validation are left out and the rest is kept.
Collect_SkipInvalid(results) ==
  LET kept == SelectSeq(results, Kept)
  IN Valid([i \in 1..Len(kept) |-> kept[i].v])

\* The values built in a loop over a list, in order; an entry that fails
\* validation raises out of the loop and nothing is built.
Collect(results) ==
  IF \A i \in 1..Len(results) : results[i].ok
  THEN Valid([i \in 1..Len(results) |-> results[i].v])
  ELSE Invalid

\* The parameters of a method entry.
LoadParameters(entries) ==
  Collect([i \in 1..Len(entries) |-> LoadParameter(entries[i])])

\* Method(**method)
LoadMethod(method) ==
  LET name == RequiredStr(method, "name")
      return_type == OptionalStr(method, "return_type", "")
      parameters == LoadParameters(GetList(method, "parameters"))
      visibility == OptionalStr(method, "visibility", "+")
      is_static == OptionalBool(method, "is_static", FALSE)
      is_abstract == OptionalBool(method, "is_abstract", FALSE)
  IN IF name.ok /\ return_type.ok /\ parameters.ok /\ visibility.ok
        /\ is_static.ok /\ is_abstract.ok
     THEN Valid(Method(name.v, return_type.v, parameters.v, visibility.v,
                       is_static.v, is_abstract.v))
     ELSE Invalid

\* Relationship(**rel)
LoadRelationship(rel) ==
  LET source == RequiredStr(rel, "source")
      target == RequiredStr(rel, "target")
      type == RequiredStr(rel, "type")
      label == OptionalStr(rel, "label", "")
      multiplicity == OptionalStr(rel, "multiplicity", "")
  IN IF source.ok /\ target.ok /\ type.ok /\ label.ok /\ multiplicity.ok
     THEN Valid([source |-> source.v, target |-> target.v, type |-> type.v,
                 label |-> label.v, multiplicity |-> multiplicity.v])
     ELSE Invalid

\* for attr in class_data.get('attributes', [])
LoadAttributes(entries) ==
  Collect([i \in 1..Len(entries) |-> LoadAttribute(entries[i])])

\* for method in class_data.get('methods', [])
LoadMethods(entries) ==
  Collect([i \in 1..Len(entries) |-> LoadMethod(entries[i])])

\* The ClassDefinition built from one entry of 'classes'.
LoadClass(class_data) ==
  LET attributes == LoadAttributes(GetList(class_data, "attributes"))
      methods == LoadMethods(GetList(class_data, "methods"))
      name == RequiredStr(class_data, "name")
      is_abstract == OptionalBool(class_data, "is_abstract", FALSE)
      is_interface == OptionalBool(class_data, "is_interface", FALSE)
      package == OptionalStrOrNone(class_data, "package", "")
  IN IF attributes.ok /\ methods.ok /\ name.ok /\ is_abstract.ok
        /\ is_interface.ok /\ package.ok
     THEN Valid(ClassDefinition(name.v, attributes.v, methods.v,
                                is_abstract.v, is_interface.v, package.v))
     ELSE Invalid

\* for class_data in data.get('classes', [])
LoadClasses(entries) ==
  Collect([i \in 1..Len(entries) |-> LoadClass(entries[i])])

\* for rel in data.get('relationships', [])
LoadRelationships(entries) ==
  Collect([i \in 1..Len(entries) |-> LoadRelationship(entries[i])])

\* ManualInputParser.parse: json_str is a text json.loads accepts
\* (json_ok) with the value `data`, an object, or a text it rejects.
ManualInputParser_parse(json_str) ==
  IF ~json_str.json_ok THEN Raised("Error parsing manual input")
  ELSE LET classes == LoadClasses(GetList(json_str.data, "classes"))
           relationships ==
             LoadRelationships(GetList(json_str.data, "relationships"))
       IN IF classes.ok /\ relationships.ok
          THEN UMLDiagram(classes.v, relationships.v)
          ELSE Raised("Error parsing manual input")

\* Attribute.model_dump()
DumpAttribute(attr) ==
  [name |-> JStr(attr.name), type |-> JStr(attr.type),
   visibility |-> JStr(attr.visibility), is_static |-> JBool(attr.is_static)]

DumpParameter(param) == [k \in DOMAIN param |-> JStr(param[k])]

\* Method.model_dump()
DumpMethod(method) ==
  [name |-> JStr(method.name), return_type |-> JStr(method.return_type),
   parameters |-> [i \in 1..Len(method.parameters) |->
                     DumpParameter(method.parameters[i])],
   visibility |-> JStr(method.visibility),
   is_static |-> JBool(method.is_static),
   is_abstract |-> JBool(method.is_abstract)]

\* Relationship.model_dump()
DumpRelationship(rel) ==
  [source |-> JStr(rel.source), target |-> JStr(rel.target),
   type |-> JStr(rel.type), label |-> JStr(rel.label),
   multiplicity |-> JStr(rel.multiplicity)]

\* Mutant: to_dict without the package.
ClassToDict_NoPackage(class) ==
  [name |-> JStr(class.name),
   attributes |-> [i \in 1..Len(class.attributes) |->
                     DumpAttribute(class.attributes[i])],
   methods |-> [i \in 1..Len(class.methods) |-> DumpMethod(class.methods[i])],
   is_abstract |-> JBool(class.is_abstract),
   is_interface |-> JBool(class.is_interface)]

\* ClassDefinition.to_dict
ClassToDict(class) ==
  [name |-> JStr(class.name),
   attributes |-> [i \in 1..Len(class.attributes) |->
                     DumpAttribute(class.attributes[i])],
   methods |-> [i \in 1..Len(class.methods) |-> DumpMethod(class.methods[i])],
   is_abstract |-> JBool(class.is_abstract),
   is_interface |-> JBool(class.is_interface),
   package |-> IF class.package = None THEN JNull ELSE JStr(class.package)]

\* The classes / relationships document of a model, as JSON text.
Serialize(diagram) ==
  [json_ok |-> TRUE,
   data |-> [classes |-> [i \in 1..Len(diagram.classes) |->
                            ClassToDict(diagram.classes[i])],
             relationships |-> [i \in 1..Len(diagram.relationships) |->
                                  DumpRelationship(diagram.relationships[i])]]]

(***************************************************************************)
(* utils/code_analyzer.py: CodeAnalyzer._detect_code_smells                *)
(*                                                                         *)
(* The analyzed text may span lines: a line break is the token NL, which   *)
(* is white space to \s like the space that joins two tokens.              *)
(***************************************************************************)

NL == "\n"

Min(S) == CHOOSE x \in S : \A y \in S : x <= y

\* The characters of the numeric literals of the inputs.
Chars(tok) ==
  CASE tok = "0" -> <<"0">>
    [] tok = "1" -> <<"1">>
    [] tok = "5" -> <<"5">>
    [] tok = "7" -> <<"7">>
    [] tok = "-0" -> <<"-", "0">>
    [] tok = "-1" -> <<"-", "1">>
    [] tok = "-7" -> <<"-", "7">>
    [] tok = "10" -> <<"1", "0">>
    [] tok = "15" -> <<"1", "5">>
    [] tok = "42" -> <<"4", "2">>
    [] tok = "100" -> <<"1", "0", "0">>
    [] tok = "1000" -> <<"1", "0", "0", "0">>
    [] tok = "0.5" -> <<"0", ".", "5">>
    [] tok = "3.14" -> <<"3", ".", "1", "4">>
    [] OTHER -> <<>>

\* re: -?\d+(?:\.\d+)? matches exactly the numeric literal tokens.
IsNumber(tok) == Chars(tok) # <<>>

IsSigned(tok) == IsNumber(tok) /\ Chars(tok)[1] = "-"

\* Tokens that are neither a word nor a single character of Punct.
Operators == {"==", "+=", "<", ">", "&&", "||", "//", "/*"}

\* re: \w+ matches the whole of this token.
IsWordToken(t) ==
  /\ IsWord(t)
  /\ t \notin {NL, None} \cup Operators
  /\ IsNumber(t) => \A i \in 1..Len(Chars(t)) : Chars(t)[i] \notin {"-", "."}

\* The token at a position, None past the end of the text.
At(code, i) == IF i \in 1..Len(code) THEN code[i] ELSE None

\* re: \s* from position i: the position of the first token at or after i
\* that is no line break, Len(code) + 1 when there is none.
SkipSpace(code, i) ==
  LET rest == {j \in i..Len(code) : code[j] # NL}
  IN IF rest = {} THEN Len(code) + 1 ELSE Min(rest)

\* The heuristic catalog: thresholds and the alternatives of the exclusion.
code_smells ==
  [long_method |-> [threshold |-> 30],
   too_many_parameters |-> [threshold |-> 5],
   magic_numbers |->
     [exclude |-> {<<"0">>, <<"1">>, <<"-", "1">>, <<"1", "0", "0">>}]]

AccessModifiers == {"public", "private", "protected"}

\* re: (?:\w+)\s+(\w+)\s*\(([^)]*)\) with the type at position t.
SignatureFrom(code, t) ==
  LET n == SkipSpace(code, t + 1)
      o == SkipSpace(code, n + 1)
      close == Find(code, ")", o + 1)
  IN IF IsWordToken(At(code, t)) /\ IsWordToken(At(code, n))
        /\ At(code, o) = "(" /\ close # 0
     THEN [found |-> TRUE, name |-> code[n], open |-> o, close |-> close]
     ELSE [found |-> FALSE]

\* re: (?:public|private|protected)\s+(?:static\s+)?(?:\w+)\s+(\w+)\s*
\*     \(([^)]*)\)   at position i; the optional `static` is tried first
\* and given up when the rest does not match with it.
SignatureAt(code, i) ==
  LET a == SkipSpace(code, i + 1)
      with == IF At(code, a) = "static"
              THEN SignatureFrom(code, SkipSpace(code, a + 1))
              ELSE [found |-> FALSE]
  IN IF At(code, i) \notin AccessModifiers THEN [found |-> FALSE]
     ELSE IF with.found THEN with
     ELSE SignatureFrom(code, a)

\* re: \s*(?:throws\s+[\w,\s]+\s*)?{ after the ')' at position close: the
\* position of the '{', 0 when there is no match.
BodyOpen(code, close) ==
  LET b == SkipSpace(code, close + 1)
      listed(t) == IsWordToken(t) \/ t \in {",", NL}
      after == {k \in (b + 1)..Len(code) : ~listed(code[k])}
  IN IF At(code, b) = "{" THEN b
     ELSE IF At(code, b) = "throws" /\ after # {}
             /\ Min(after) > b + 1 /\ code[Min(after)] = "{"
     THEN Min(after)
     ELSE 0

Braces == {"{", "}"}

\* re: {(?:[^{}]|{[^{}]*})*} from the '{' at position open: the braces
\* before the closing one pair up as blocks with no brace inside.
IsBodyEnd(code, open, e) ==
  /\ code[e] = "}"
  /\ \A k \in (open + 1)..(e - 1) :
       /\ code[k] = "{" =>
            \E c \in (k + 1)..(e - 1) :
              /\ code[c] = "}"
              /\ \A j \in (k + 1)..(c - 1) : code[j] \notin Braces
       /\ code[k] = "}" =>
            \E o \in (open + 1)..(k - 1) :
              /\ code[o] = "{"
              /\ \A j \in (o + 1)..(k - 1) : code[j] \notin Braces

\* The position of the '}' that ends the body, 0 when the body does not
\* match.
BodyEnd(code, open) ==
  LET ends == {e \in (open + 1)..Len(code) : IsBodyEnd(code, open, e)}
  IN IF ends = {} THEN 0 ELSE Min(ends)

\* The long_method pattern at position i.
LongMethodAt(code, i) ==
  LET sig == SignatureAt(code, i)
      open == BodyOpen(code, sig.close)
      end == BodyEnd(code, open)
  IN IF sig.found /\ open # 0 /\ end # 0
     THEN [found |-> TRUE, name |-> sig.name, start |-> i, end |-> end]
     ELSE [found |-> FALSE]

\* re.finditer: the matches from left to right, each search starting after
\* the end of the match before.
RECURSIVE LongMethodMatches(_, _)
LongMethodMatches(code, from) ==
  LET starts == {i \in from..Len(code) : LongMethodAt(code, i).found}
  IN IF starts = {} THEN <<>>
     ELSE LET m == LongMethodAt(code, Min(starts))
          IN <<m>> \o LongMethodMatches(code, m.end + 1)

\* method_body.count('\n')
LineCount(code, m) == Cardinality({k \in m.start..m.end : code[k] = NL})

\* if line_count > smell_info["threshold"]: results[...].append(...), over
\* the matches.
LongMethods(code, matches) ==
  LET threshold == code_smells.long_method.threshold
      long == SelectSeq(matches, LAMBDA m : LineCount(code, m) > threshold)
  IN [i \in 1..Len(long) |->
        [name |-> long[i].name, lines |-> LineCount(code, long[i]),
         threshold |-> threshold]]

\* The findings of the long_method heuristic.
LongMethodFindings(code) == LongMethods(code, LongMethodMatches(code, 1))

\* re.finditer of the too_many_parameters pattern.
RECURSIVE SignatureMatches(_, _)
SignatureMatches(code, from) ==
  LET starts == {i \in from..Len(code) : SignatureAt(code, i).found}
  IN IF starts = {} THEN <<>>
     ELSE LET m == SignatureAt(code, Min(starts))
          IN <<m>> \o SignatureMatches(code, m.close + 1)

\* Mutant: the commas are counted, not the pieces between them.
ParamCount_Commas(params) ==
  Cardinality({k \in 1..Len(params) : params[k] = ","})

\* 0 if the stripped group is empty, else len(params.split(','))
ParamCount(params) ==
  IF \A k \in 1..Len(params) : params[k] = NL THEN 0
  ELSE Cardinality({k \in 1..Len(params) : params[k] = ","}) + 1

\* if param_count > smell_info["threshold"]: results[...].append(...),
\* over the matches.
ManyParameters(code, matches) ==
  LET threshold == code_smells.too_many_parameters.threshold
      count(m) == ParamCount(SubSeq(code, m.open + 1, m.close - 1))
      many == SelectSeq(matches, LAMBDA m : count(m) > threshold)
  IN [i \in 1..Len(many) |->
        [name |-> many[i].name, parameter_count |-> count(many[i]),
         threshold |-> threshold]]

\* The findings of the too_many_parameters heuristic.
TooManyParametersFindings(code) ==
  ManyParameters(code, SignatureMatches(code, 1))

\* Tokens whose text ends with   = | return | [,(+\-*/]
ContextTokens ==
  {"=", "return", ",", "(", "+", "-", "*", "/", "==", "+=", "//", "/*"}

\* re: \s*(?:[;,)]|$) from position k: the position where the match ends,
\* 0 when there is no match.
MagicEnd(code, k) ==
  LET e == SkipSpace(code, k)
  IN IF e > Len(code) THEN Len(code) + 1
     ELSE IF code[e] \in {";", ",", ")"} THEN e
     ELSE 0

\* The magic_numbers pattern at position i: a context followed by a
\* literal, or a signed literal whose sign is the context of its digits.
MagicAt(code, i) ==
  LET j == SkipSpace(code, i + 1)
  IN IF code[i] \in ContextTokens /\ IsNumber(At(code, j))
        /\ MagicEnd(code, j + 1) # 0
     THEN [found |-> TRUE, number |-> Chars(code[j]),
           end |-> MagicEnd(code, j + 1)]
     ELSE IF IsSigned(code[i]) /\ MagicEnd(code, i + 1) # 0
     THEN [found |-> TRUE, number |-> Tail(Chars(code[i])),
           end |-> MagicEnd(code, i + 1)]
     ELSE [found |-> FALSE]

\* re.finditer of the magic_numbers pattern.
RECURSIVE MagicMatches(_, _)
MagicMatches(code, from) ==
  LET starts == {i \in from..Len(code) : MagicAt(code, i).found}
  IN IF starts = {} THEN <<>>
     ELSE LET m == MagicAt(code, Min(starts))
          IN <<m>> \o MagicMatches(code, m.end + 1)

\* Mutant: the default exclusion, which matches nothing.
Excluded_Never(number) == FALSE

\* re.match(exclude_pattern, number): an alternative of the exclusion is
\* found at the start of the number.
Excluded(number) ==
  \E alt \in code_smells.magic_numbers.exclude :
    /\ Len(alt) <= Len(number)
    /\ SubSeq(number, 1, Len(alt)) = alt

\* The findings of the magic_numbers heuristic.
MagicNumberFindings(code) ==
  LET number(matches) == [i \in 1..Len(matches) |->
                            [number |-> matches[i].number]]
  IN number(SelectSeq(MagicMatches(code, 1),
                      LAMBDA m : ~Excluded(m.number)))

\* The number of characters of a token of the analyzed texts.
TokenLen(tok) ==
  CASE tok \in {"if", "==", "+=", "&&", "||", "//", "/*", "-0", "-1", "-7", "10",
               "15", "42"} -> 2
    [] tok \in {"int", "for", "try", "new", "Foo", "100", "0.5"} -> 3
    [] tok \in {"void", "else", "case", "enum", "TODO", "1000", "3.14"} -> 4
    [] tok \in {"final", "while", "catch", "class"} -> 5
    [] tok \in {"public", "static", "throws", "return", "Random"} -> 6
    [] tok \in {"private", "extends"} -> 7
    [] tok \in {"Observer", "Listener"} -> 8
    [] tok \in {"protected", "interface", "Exception", "createFoo"} -> 9
    [] tok \in {"implements"} -> 10
    [] tok \in {"XMLInputFactory"} -> 15
    [] tok \in {"SAXParserFactory"} -> 16
    [] tok \in {"DocumentBuilderFactory"} -> 22
    [] OTHER -> 1

\* len(text) of the tokens joined by single spaces.
RECURSIVE TextLen(_)
TextLen(tokens) ==
  IF tokens = <<>> THEN 0
  ELSE IF Len(tokens) = 1 THEN TokenLen(tokens[1])
  ELSE TokenLen(tokens[1]) + 1 + TextLen(Tail(tokens))

\* match.group(0)[:50] + "..." if len(match.group(0)) > 50 else
\* match.group(0): a text of more than 50 characters is cut to the tokens
\* that fit whole and `rest` more characters (the space and the start of
\* the next token), and the ellipsis is added.
MatchText(tokens) ==
  IF TextLen(tokens) > 50
  THEN LET fit == {j \in 0..Len(tokens) : TextLen(SubSeq(tokens, 1, j)) <= 50}
           j == CHOOSE k \in fit : \A l \in fit : l <= k
       IN [tokens |-> SubSeq(tokens, 1, j),
           rest |-> 50 - TextLen(SubSeq(tokens, 1, j)), ellipsis |-> TRUE]
  ELSE [tokens |-> tokens, rest |-> 0, ellipsis |-> FALSE]

\* The token starts with a \w character.
StartsWithWordChar(t) ==
  /\ IsWord(t)
  /\ t \notin {NL, None} \cup Operators
  /\ ~IsSigned(t)

NoMatchAt == [found |-> FALSE]

\* catch\s*\(\s*Exception\s+\w+\s*\)
CatchExceptionAt(code, i) ==
  LET o == SkipSpace(code, i + 1)
      x == SkipSpace(code, o + 1)
      w == SkipSpace(code, x + 1)
      c == SkipSpace(code, w + 1)
  IN IF code[i] = "catch" /\ At(code, o) = "(" /\ At(code, x) = "Exception"
        /\ IsWordToken(At(code, w)) /\ At(code, c) = ")"
     THEN [found |-> TRUE, start |-> i, end |-> c]
     ELSE NoMatchAt

\* (?!class|interface|enum)(\w+)\s+(\w+) with the type at position t.
FieldFrom(code, i, t) ==
  LET n == SkipSpace(code, t + 1)
  IN IF IsWordToken(At(code, t))
        /\ At(code, t) \notin {"class", "interface", "enum"}
        /\ StartsWithWordChar(At(code, n))
     THEN [found |-> TRUE, start |-> i, end |-> n]
     ELSE NoMatchAt

\* public\s+(?:static\s+)?(?:final\s+)?(?!class|interface|enum)(\w+)\s+(\w+)
\* at position i: each optional keyword is tried first and given up when
\* the rest does not match with it.
PublicFieldAt(code, i) ==
  LET a == SkipSpace(code, i + 1)
      b == SkipSpace(code, a + 1)
      c == SkipSpace(code, b + 1)
      static == At(code, a) = "static"
      both == IF static /\ At(code, b) = "final"
              THEN FieldFrom(code, i, c) ELSE NoMatchAt
      onlyStatic == IF static THEN FieldFrom(code, i, b) ELSE NoMatchAt
      onlyFinal == IF At(code, a) = "final"
                   THEN FieldFrom(code, i, b) ELSE NoMatchAt
  IN IF code[i] # "public" THEN NoMatchAt
     ELSE IF both.found THEN both
     ELSE IF onlyStatic.found THEN onlyStatic
     ELSE IF onlyFinal.found THEN onlyFinal
     ELSE FieldFrom(code, i, a)

\* //\s*TODO|/\*\s*TODO
TodoAt(code, i) ==
  LET t == SkipSpace(code, i + 1)
  IN IF code[i] \in {"//", "/*"} /\ At(code, t) = "TODO"
     THEN [found |-> TRUE, start |-> i, end |-> t]
     ELSE NoMatchAt

\* catch\s*\([^)]+\)\s*{\s*}
EmptyCatchAt(code, i) ==
  LET o == SkipSpace(code, i + 1)
      c == Find(code, ")", o + 1)
      b == SkipSpace(code, c + 1)
      e == SkipSpace(code, b + 1)
  IN IF code[i] = "catch" /\ At(code, o) = "(" /\ c # 0
        /\ At(code, b) = "{" /\ At(code, e) = "}"
     THEN [found |-> TRUE, start |-> i, end |-> e]
     ELSE NoMatchAt

\* if\s*\([^{]+(&&|\|\|)[^{]+(&&|\|\|): the match runs to the last
\* operator before the next '{'.
ComplexConditionalAt(code, i) ==
  LET o == SkipSpace(code, i + 1)
      brace == Find(code, "{", o + 1)
      last == IF brace = 0 THEN Len(code) ELSE brace - 1
      ops == {k \in (o + 1)..last : code[k] \in {"&&", "||"}}
  IN IF code[i] = "if" /\ At(code, o) = "(" /\ Cardinality(ops) >= 2
     THEN [found |-> TRUE, start |-> i,
           end |-> CHOOSE k \in ops : \A l \in ops : l <= k]
     ELSE NoMatchAt

\* new\s+Random\s*\(
InsecureRandomAt(code, i) ==
  LET r == SkipSpace(code, i + 1)
      o == SkipSpace(code, r + 1)
  IN IF code[i] = "new" /\ At(code, r) = "Random" /\ At(code, o) = "("
     THEN [found |-> TRUE, start |-> i, end |-> o]
     ELSE NoMatchAt

\* (?:DocumentBuilderFactory|SAXParserFactory|XMLInputFactory)
XxeAt(code, i) ==
  IF code[i] \in {"DocumentBuilderFactory", "SAXParserFactory",
                  "XMLInputFactory"}
  THEN [found |-> TRUE, start |-> i, end |-> i]
  ELSE NoMatchAt

\* for\s*\([^{]+\{\s*(?:[^;]*;\s*)*new\s+\w+: after the '{' of the loop,
\* the last `new` that stands first in a statement.
InstantiationInLoopAt(code, i) ==
  LET o == SkipSpace(code, i + 1)
      brace == Find(code, "{", o + 1)
      first(k) == \E q \in brace..(k - 1) :
                    /\ code[q] = ";" \/ q = brace
                    /\ SkipSpace(code, q + 1) = k
      news == {k \in (brace + 1)..Len(code) :
                 /\ code[k] = "new" /\ first(k)
                 /\ StartsWithWordChar(At(code, SkipSpace(code, k + 1)))}
  IN IF code[i] = "for" /\ At(code, o) = "(" /\ brace # 0 /\ news # {}
     THEN [found |-> TRUE, start |-> i,
           end |-> SkipSpace(code,
                     (CHOOSE k \in news : \A l \in news : l <= k) + 1)]
     ELSE NoMatchAt

\* Names of the inputs that match create\w+.
CreateNames == {"createFoo"}

\* (?:public|protected)\s+\w+\s+create\w+\s*\([^)]*\)
FactoryMethodAt(code, i) ==
  LET t == SkipSpace(code, i + 1)
      n == SkipSpace(code, t + 1)
      o == SkipSpace(code, n + 1)
      c == Find(code, ")", o + 1)
  IN IF code[i] \in {"public", "protected"} /\ IsWordToken(At(code, t))
        /\ At(code, n) \in CreateNames /\ At(code, o) = "(" /\ c # 0
     THEN [found |-> TRUE, start |-> i, end |-> c]
     ELSE NoMatchAt

\* (?:implements|extends)\s+(?:\w+\.)*(?:Observer|Listener)
ObserverAt(code, i) ==
  LET n == SkipSpace(code, i + 1)
  IN IF code[i] \in {"implements", "extends"}
        /\ At(code, n) \in {"Observer", "Listener"}
     THEN [found |-> TRUE, start |-> i, end |-> n]
     ELSE NoMatchAt

\* The heuristics handled by the general branch, by category, and the
\* match of each at position i.  The texts of the model hold no string
\* literal, no dotted call and no name ending in Instance, Builder,
\* Decorator or Wrapper, which the patterns of the remaining heuristics
\* require, so these have no match on them.
GenericAt(rule, code, i) ==
  CASE rule = "catch_exception" -> CatchExceptionAt(code, i)
    [] rule = "public_fields" -> PublicFieldAt(code, i)
    [] rule = "todo_comments" -> TodoAt(code, i)
    [] rule = "empty_catch" -> EmptyCatchAt(code, i)
    [] rule = "complex_conditional" -> ComplexConditionalAt(code, i)
    [] rule = "insecure_randoms" -> InsecureRandomAt(code, i)
    [] rule = "xxe_vulnerability" -> XxeAt(code, i)
    [] rule = "instantiation_in_loop" -> InstantiationInLoopAt(code, i)
    [] rule = "factory_method" -> FactoryMethodAt(code, i)
    [] rule = "observer" -> ObserverAt(code, i)
    [] OTHER -> NoMatchAt

\* re.finditer(pattern, code): the leftmost matches, none overlapping.
RECURSIVE GenericMatches(_, _, _)
GenericMatches(rule, code, from) ==
  LET starts == {i \in from..Len(code) : GenericAt(rule, code, i).found}
  IN IF starts = {} THEN <<>>
     ELSE LET m == GenericAt(rule, code, Min(starts))
          IN <<m>> \o GenericMatches(rule, code, m.end + 1)

\* The part of a token that a final \w+ takes: the whole token, or the
\* digits before the point of a decimal number.
WordPrefix(tok) ==
  CASE tok = "0.5" -> "0"
    [] tok = "3.14" -> "3"
    [] OTHER -> tok

\* match.group(0) of a match: its tokens, the last one as far as matched.
Group0(code, m) ==
  [k \in 1..(m.end - m.start + 1) |->
     IF k = m.end - m.start + 1 THEN WordPrefix(code[m.end])
     ELSE code[m.start + k - 1]]

\* One finding per match, holding the matched text cut to 50 characters.
GenericFindings(rule, code) ==
  LET finding(matches) ==
        [i \in 1..Len(matches) |->
           [match |-> MatchText(Group0(code, matches[i]))]]
  IN finding(GenericMatches(rule, code, 1))

\* The names of the heuristics of each category.
SmellNames ==
  {"long_method", "too_many_parameters", "catch_exception", "public_fields",
   "magic_numbers", "todo_comments", "empty_catch", "complex_conditional"}

SecurityNames ==
  {"sql_injection", "hardcoded_credentials", "insecure_randoms",
   "xxe_vulnerability", "log_injection"}

PerformanceNames ==
  {"string_concatenation_in_loop", "instantiation_in_loop",
   "inefficient_string_conversion"}

PatternNames == {"singleton", "factory_method", "observer", "builder",
                 "decorator"}

\* for smell_name, smell_info in self.code_smells.items(): the findings by
\* heuristic, three heuristics having a branch of their own (the
\* description of a finding is the fixed text of its heuristic and is left
\* out).
DetectCodeSmells(code) ==
  [name \in SmellNames |->
     CASE name = "long_method" -> LongMethodFindings(code)
       [] name = "too_many_parameters" -> TooManyParametersFindings(code)
       [] name = "magic_numbers" -> MagicNumberFindings(code)
       [] OTHER -> GenericFindings(name, code)]

DetectSecurityIssues(code) ==
  [name \in SecurityNames |-> GenericFindings(name, code)]

DetectPerformanceIssues(code) ==
  [name \in PerformanceNames |-> GenericFindings(name, code)]

\* The patterns of the catalog: one per heuristic, and the exclusion
\* sub-rule of the magic numbers.
Rules ==
  SmellNames \cup SecurityNames \cup PerformanceNames \cup PatternNames
    \cup {"magic_numbers.exclude"}

\* The catalog as __init__ builds it: every pattern is the one written in
\* the source, and each of them compiles.
ShippedCatalog == [rule \in Rules |-> "shipped"]

\* The catalog is a set of public attributes of the analyzer; a caller
\* can replace the pattern of a rule by one that does not compile.
Malformed(cat, rule) == cat[rule] = "malformed"

\* re.finditer compiles its pattern when it is called, so a malformed
\* pattern raises whatever the text is; re.match on the exclusion is
\* called once per match of the magic-number pattern, so a malformed
\* exclusion raises when that pattern has a match.  _detect_code_smells,
\* _detect_security_issues and _detect_performance_issues catch nothing.
SmellsRaise(cat, code) ==
  \/ \E rule \in SmellNames : Malformed(cat, rule)
  \/ Malformed(cat, "magic_numbers.exclude") /\ MagicMatches(code, 1) # <<>>

SecurityRaises(cat) == \E rule \in SecurityNames : Malformed(cat, rule)

PerformanceRaises(cat) == \E rule \in PerformanceNames : Malformed(cat, rule)

\* try: re.finditer(...) ... except: results[pattern_name] = []
PatternFindings(cat, rule, code) ==
  IF Malformed(cat, rule) THEN <<>> ELSE GenericFindings(rule, code)

DetectDesignPatterns(cat, code) ==
  [name \in PatternNames |-> PatternFindings(cat, name, code)]

(***************************************************************************)
(* CodeAnalyzer._estimate_complexity                                       *)
(***************************************************************************)

\* len(re.findall(r'\bkeyword\s*\(', code))
CountBefore(code, keyword, next) ==
  Cardinality({i \in 1..Len(code) :
                 code[i] = keyword /\ At(code, SkipSpace(code, i + 1)) = next})

\* len(re.findall(r'\belse\b', code))
CountWord(code, keyword) ==
  Cardinality({i \in 1..Len(code) : code[i] = keyword})

\* len(re.findall(r'\bcase\s+', code)): white space follows the keyword.
CountSpaced(code, keyword) ==
  Cardinality({i \in 1..(Len(code) - 1) : code[i] = keyword})

\* The decision points by kind.
Branches(code) ==
  [if |-> CountBefore(code, "if", "("),
   else |-> CountWord(code, "else"),
   for |-> CountBefore(code, "for", "("),
   while |-> CountBefore(code, "while", "("),
   case |-> CountSpaced(code, "case"),
   catch |-> CountBefore(code, "catch", "(")]

\* Mutant: the depth is recorded after a line that opens a block has
\* raised it.
NestingStep_RecordAfter(line, state) ==
  LET closed == IF line[1] = "}" THEN state.indent_level - 1
                ELSE state.indent_level
      opened == IF line[Len(line)] = "{" THEN closed + 1 ELSE closed
  IN [indent_level |-> opened,
      max_indent |-> IF opened > state.max_indent THEN opened
                     ELSE state.max_indent]

\* One non-blank line of the depth scan: a line starting with '}' lowers
\* the level, the level is recorded, a line ending with '{' raises it.
NestingStep(line, state) ==
  LET closed == IF line[1] = "}" THEN state.indent_level - 1
                ELSE state.indent_level
      opened == IF line[Len(line)] = "{" THEN closed + 1 ELSE closed
  IN [indent_level |-> opened,
      max_indent |-> IF closed > state.max_indent THEN closed
                     ELSE state.max_indent]

\* The depth scan over the lines of the text; blank lines are skipped.
RECURSIVE NestingScan(_, _)
NestingScan(lines, state) ==
  IF lines = <<>> THEN state
  ELSE NestingScan(Tail(lines),
                   IF Head(lines) = <<>> THEN state
                   ELSE NestingStep(Head(lines), state))

ComplexityRating(cyclomatic_complexity) ==
  IF cyclomatic_complexity <= 5 THEN "Low"
  ELSE IF cyclomatic_complexity <= 10 THEN "Moderate"
  ELSE IF cyclomatic_complexity <= 20 THEN "High"
  ELSE "Very High"

EstimateComplexity(code) ==
  LET branches == Branches(code)
      cyclomatic_complexity ==
        1 + branches.if + branches.else + branches.for + branches.while
          + branches.case + branches.catch
      max_indent ==
        NestingScan(Split(code, NL),
                    [indent_level |-> 0, max_indent |-> 0]).max_indent
  IN [cyclomatic_complexity |-> cyclomatic_complexity,
      cognitive_complexity |-> cyclomatic_complexity + max_indent * 2,
      max_nesting_depth |-> max_indent,
      branches |-> branches,
      complexity_rating |-> ComplexityRating(cyclomatic_complexity)]

(***************************************************************************)
(* CodeAnalyzer._calculate_metrics, analyze_file and analyze_folder        *)
(***************************************************************************)
\* keyword\s+\w+ at position i, for the keywords class and interface.
DeclarationAt(code, keyword, i) ==
  /\ code[i] = keyword
  /\ StartsWithWordChar(At(code, SkipSpace(code, i + 1)))

\* len(re.findall(keyword\s+\w+, code)): the matches do not overlap, so a
\* keyword taken as the name of a match starts no match of its own.
RECURSIVE DeclarationCount(_, _, _)
DeclarationCount(code, keyword, from) ==
  LET starts == {i \in from..Len(code) : DeclarationAt(code, keyword, i)}
  IN IF starts = {} THEN 0
     ELSE 1 + DeclarationCount(code, keyword,
                               SkipSpace(code, Min(starts) + 1) + 1)

IsCommentLine(line) == line # <<>> /\ line[1] \in {"//", "/*"}

CalculateMetrics(code) ==
  LET lines == Split(code, NL)
  IN [total_lines |-> Len(lines),
      code_lines |->
        Cardinality({i \in 1..Len(lines) :
                       lines[i] # <<>> /\ ~IsCommentLine(lines[i])}),
      comment_lines |->
        Cardinality({i \in 1..Len(lines) : IsCommentLine(lines[i])}),
      class_count |-> DeclarationCount(code, "class", 1),
      interface_count |-> DeclarationCount(code, "interface", 1),
      method_count |-> Len(SignatureMatches(code, 1))]

\* analyze_file: the report of one file, or the error of the first
\* detector that raises.
AnalyzeFile(cat, file_content, file_path) ==
  IF SmellsRaise(cat, file_content) \/ SecurityRaises(cat)
     \/ PerformanceRaises(cat)
  THEN Raised("re.error")
  ELSE [ok |-> TRUE,
        file_path |-> file_path,
        metrics |-> CalculateMetrics(file_content),
        code_smells |-> DetectCodeSmells(file_content),
        security_issues |-> DetectSecurityIssues(file_content),
        performance_issues |-> DetectPerformanceIssues(file_content),
        design_patterns |-> DetectDesignPatterns(cat, file_content),
        complexity |-> EstimateComplexity(file_content)]

\* file_path.startswith(folder_path), both paths being sequences of
\* characters.
PathStartsWith(file_path, folder_path) ==
  /\ Len(folder_path) <= Len(file_path)
  /\ SubSeq(file_path, 1, Len(folder_path)) = folder_path

RECURSIVE SumSeq(_)
SumSeq(numbers) ==
  IF numbers = <<>> THEN 0 ELSE Head(numbers) + SumSeq(Tail(numbers))

\* sum(len(occurrences) for occurrences in findings.values())
FindingCount(findings) ==
  LET names == DOMAIN findings
      RECURSIVE Total(_)
      Total(S) == IF S = {} THEN 0
                  ELSE LET n == CHOOSE x \in S : TRUE
                       IN Len(findings[n]) + Total(S \ {n})
  IN Total(names)

\* The aggregation variant that counts every file of the collection.
UnderFolder_All(folder_path, java_files) == java_files

\* The files of the collection that analyze_folder processes.
UnderFolder(folder_path, java_files) ==
  SelectSeq(java_files,
            LAMBDA f : PathStartsWith(f.file_path, folder_path))

\* The aggregation of analyze_folder over the reports of its files.  A
\* quotient is kept as its numerator and denominator (the integer 0 as
\* 0/1); detected_design_patterns is a list made from a set, whose order
\* the source does not fix, and is kept as the set.
Aggregate(folder_path, all_results) ==
  LET total_files == Len(all_results)
      total_lines ==
        SumSeq([i \in 1..Len(all_results) |->
                  all_results[i].metrics.total_lines])
      total_code_smells ==
        SumSeq([i \in 1..Len(all_results) |->
                  FindingCount(all_results[i].code_smells)])
      totals ==
        [total_files |-> total_files,
         total_lines |-> total_lines,
         total_classes |->
           SumSeq([i \in 1..Len(all_results) |->
                     all_results[i].metrics.class_count]),
         total_methods |->
           SumSeq([i \in 1..Len(all_results) |->
                     all_results[i].metrics.method_count]),
         avg_complexity |->
           IF total_files > 0
           THEN [num |-> SumSeq([i \in 1..Len(all_results) |->
                          all_results[i].complexity.cyclomatic_complexity]),
                 den |-> total_files]
           ELSE [num |-> 0, den |-> 1],
         total_code_smells |-> total_code_smells,
         total_security_issues |->
           SumSeq([i \in 1..Len(all_results) |->
                     FindingCount(all_results[i].security_issues)]),
         total_performance_issues |->
           SumSeq([i \in 1..Len(all_results) |->
                     FindingCount(all_results[i].performance_issues)]),
         detected_design_patterns |->
           {name \in PatternNames :
              \E i \in 1..Len(all_results) :
                all_results[i].design_patterns[name] # <<>>}]
      density == IF total_lines > 0
                 THEN [num |-> total_code_smells, den |-> total_lines]
                 ELSE [num |-> 0, den |-> 1]
  IN IF \E i \in 1..Len(all_results) : ~all_results[i].ok
     THEN Raised("re.error")
     ELSE [ok |-> TRUE,
           folder_path |-> folder_path,
           metrics |-> IF total_files > 0
                       THEN totals @@ [code_smell_density |-> density]
                       ELSE totals,
           file_results |-> all_results]

\* analyze_folder: analyze_file on each file under the folder, then the
\* aggregation.
AnalyzeFolder(cat, folder_path, java_files) ==
  LET files == UnderFolder(folder_path, java_files)
  IN Aggregate(folder_path,
               [i \in 1..Len(files) |->
                  AnalyzeFile(cat, files[i].content, files[i].file_path)])

(***************************************************************************)
(* Inputs of the extractors.                                               *)
(***************************************************************************)

\* Bounds on the number of declarations of one input.
MaxJavaDecls == 2

MaxPyClasses == 2

MaxJSClasses == 2

\* The sequences over S of length 1..n.
SeqsUpTo(S, n) == UNION {[1..k -> S] : k \in 1..n}

\* items joined by ',' tokens
RECURSIVE CommaSeparated(_)
CommaSeparated(items) ==
  IF items = <<>> THEN <<>>
  ELSE IF Len(items) = 1 THEN <<items[1]>>
  ELSE <<items[1], ",">> \o CommaSeparated(Tail(items))

\* The tokens from the '{' of a Java declaration on, by the form of its body.
JavaFormTokens(form) ==
  CASE form = "empty" -> <<"{", "}">>
    [] form = "members" ->
         <<"{", "private", "int", "x", ";",
           "public", "static", "int", "f", "(", "int", "x", ",", "A", "y", ")",
           "{", "if", "(", "x", ")", "{", "x", "=", "5", ";", "}", "}", "}">>
    [] form = "nested" -> <<"{", "class", "C", "{", "}", "}">>
    [] form = "open" -> <<"{", "protected", "final", "B", "y", "=", "x", ";">>
    [] form = "nobrace" -> <<>>
    [] form = "employee_field" ->
         <<"{", "private", "double", "salary", ";",
           "public", "double", "getSalary", "(", ")",
           "{", "return", "salary", ";", "}", "}">>
    [] form = "employee_this" ->
         <<"{", "private", "double", "salary", ";",
           "public", "double", "getSalary", "(", ")",
           "{", "return", "this", ".", "salary", ";", "}", "}">>
    [] form = "employee_call" ->
         <<"{", "private", "double", "salary", ";",
           "public", "double", "getSalary", "(", ")",
           "{", "return", "round", "(", "salary", ")", ";", "}", "}">>
    [] form = "person" ->
         <<"{", "protected", "String", "name", ";", "}">>
    [] form = "ipayable" ->
         <<"{", "double", "calculatePay", "(", ")", ";", "}">>
    [] form = "statement" -> <<"int", "x", "=", "5", ";">>
    [] form = "unnamed" -> <<"class", "{", "}">>
    [] form = "enum" -> <<"public", "enum", "A", "{", "}">>

\* The tokens of one Java declaration.
JavaDeclTokens(d) ==
  IF d.kind = "text" THEN JavaFormTokens(d.form)
  ELSE
  d.mods \o <<d.kind, d.name>>
  \o (IF d.ext = None THEN <<>> ELSE <<"extends", d.ext>>)
  \o (IF d.impl = <<>> THEN <<>>
      ELSE <<"implements">> \o CommaSeparated(d.impl))
  \o JavaFormTokens(d.form)

\* The tokens of a Java input: its declarations one after the other.
RECURSIVE JavaText(_)
JavaText(decls) ==
  IF decls = <<>> THEN <<>>
  ELSE JavaDeclTokens(Head(decls)) \o JavaText(Tail(decls))

\* The extends / implements clauses of the general declarations.
JavaClauses ==
  {[ext |-> None, impl |-> <<>>],
   [ext |-> "C", impl |-> <<>>],
   [ext |-> None, impl |-> <<"B", "C">>],
   [ext |-> "B", impl |-> <<"A">>]}

JavaGeneralDecls ==
  {[mods |-> <<>>, kind |-> "class", name |-> n, ext |-> c.ext,
    impl |-> c.impl, form |-> f] :
     n \in {"A", "B"}, c \in JavaClauses,
     f \in {"empty", "members", "nested", "open", "nobrace"}}
  \cup
  {[mods |-> <<>>, kind |-> "interface", name |-> n, ext |-> None,
    impl |-> <<>>, form |-> "ipayable"] : n \in {"A", "B"}}

\* The declarations of the Employee / Person / IPayable scenario.
EmployeeDecl(mods, form) ==
  [mods |-> mods, kind |-> "class", name |-> "Employee", ext |-> "Person",
   impl |-> <<"IPayable">>, form |-> form]

PersonDecl(mods) ==
  [mods |-> mods, kind |-> "class", name |-> "Person", ext |-> None,
   impl |-> <<>>, form |-> "person"]

IPayableDecl(mods) ==
  [mods |-> mods, kind |-> "interface", name |-> "IPayable", ext |-> None,
   impl |-> <<>>, form |-> "ipayable"]

EmployeeForms == {"employee_field", "employee_this", "employee_call"}

\* The scenario in every order of its three declarations.
JavaScenarioInputs ==
  {[i \in 1..3 |-> ds[perm[i]]] :
     ds \in {<<EmployeeDecl(em, f), PersonDecl(pm), IPayableDecl(im)>> :
               em \in {<<>>, <<"public">>}, f \in EmployeeForms,
               pm \in {<<>>, <<"abstract">>, <<"public", "abstract">>},
               im \in {<<>>, <<"public">>}},
     perm \in {q \in [1..3 -> 1..3] : \A a, b \in 1..3 : a # b => q[a] # q[b]}}

\* Text that declares no class: a statement, a class keyword without a
\* name, an enum.
JavaTextDecls ==
  {[mods |-> <<>>, kind |-> "text", name |-> None, ext |-> None,
    impl |-> <<>>, form |-> f] : f \in {"statement", "unnamed", "enum"}}

\* The empty text, a text without a declaration, and such a text before a
\* declaration.
JavaPlainInputs ==
  {<<>>} \cup {<<t>> : t \in JavaTextDecls}
    \cup {<<t, [mods |-> <<>>, kind |-> "class", name |-> "B", ext |-> "A",
              impl |-> <<>>, form |-> "empty"]>> : t \in JavaTextDecls}

JavaInputs ==
  SeqsUpTo(JavaGeneralDecls, MaxJavaDecls) \cup JavaScenarioInputs
    \cup JavaPlainInputs

\* The class and interface names a Java input declares.
JavaDeclared(decls) ==
  {decls[i].name : i \in {k \in 1..Len(decls) : decls[k].kind # "text"}}
  \cup {"C" : i \in {k \in 1..Len(decls) : decls[k].form = "nested"}}

\* Python expression nodes.
PyName(id) == [kind |-> "Name", id |-> id]

PyAttributeExpr == [kind |-> "Attribute"]

PyAbsent == [kind |-> "Absent"]

\* The statements of the body of a Python class, by its form.
PyFormBody(form) ==
  CASE form = "pass" -> <<[kind |-> "Pass"]>>
    [] form = "members" ->
         <<[kind |-> "AnnAssign", target |-> PyName("x"),
            annotation |-> PyName("int")],
           [kind |-> "AnnAssign", target |-> PyName("__x"),
            annotation |-> [kind |-> "Subscript", value |-> PyName("List")]],
           [kind |-> "AnnAssign", target |-> PyAttributeExpr,
            annotation |-> PyName("int")],
           [kind |-> "Assign", targets |-> <<PyName("_x"), PyAttributeExpr>>],
           [kind |-> "FunctionDef", name |-> "__init__",
            decorator_list |-> <<>>,
            args |-> <<[arg |-> "self", annotation |-> PyAbsent],
                       [arg |-> "x", annotation |-> PyName("int")]>>,
            returns |-> [kind |-> "Constant", value |-> "None"]],
           [kind |-> "FunctionDef", name |-> "__x",
            decorator_list |-> <<PyName("staticmethod")>>,
            args |-> <<[arg |-> "y", annotation |-> PyAttributeExpr]>>,
            returns |-> PyName("B")],
           [kind |-> "FunctionDef", name |-> "_x",
            decorator_list |-> <<PyAttributeExpr, PyName("abstractmethod")>>,
            args |-> <<[arg |-> "cls", annotation |-> PyAbsent]>>,
            returns |-> PyAbsent],
           [kind |-> "FunctionDef", name |-> "f",
            decorator_list |-> <<>>,
            args |-> <<[arg |-> "self", annotation |-> PyAbsent]>>,
            returns |-> PyAbsent],
           [kind |-> "FunctionDef", name |-> "__x__",
            decorator_list |-> <<>>,
            args |-> <<[arg |-> "self", annotation |-> PyAbsent]>>,
            returns |-> PyName("str")]>>
    [] form = "nested" ->
         <<[kind |-> "ClassDef", name |-> "C", decorator_list |-> <<>>,
            bases |-> <<PyName("A")>>, body |-> <<[kind |-> "Pass"]>>]>>

\* The ClassDef node of one class of a Python input.
PyClassNode(c) ==
  [kind |-> "ClassDef", name |-> c.name, decorator_list |-> c.decorators,
   bases |-> c.bases, body |-> PyFormBody(c.form)]

\* The module body of a Python input: its classes one after the other.
PyTree(classes) == [i \in 1..Len(classes) |-> PyClassNode(classes[i])]

PyGeneralClasses ==
  {[name |-> n, decorators |-> <<>>, bases |-> b, form |-> f] :
     n \in {"A", "B"},
     b \in {<<>>, <<PyName("B")>>, <<PyName("C")>>, <<PyAttributeExpr>>,
            <<PyName("C"), PyName("A")>>},
     f \in {"pass", "members", "nested"}}
  \cup
  {[name |-> n, decorators |-> <<PyName("abstractmethod")>>, bases |-> <<>>,
    form |-> "pass"] : n \in {"A", "B"}}

\* A Python input: the classes of the text and whether ast.parse accepts it.
PythonInputs ==
  {[syntax_ok |-> ok, classes |-> cs] :
     ok \in BOOLEAN, cs \in SeqsUpTo(PyGeneralClasses, MaxPyClasses)}

\* The class names a Python input declares.
PyDeclared(classes) ==
  {classes[i].name : i \in 1..Len(classes)}
  \cup {"C" : i \in {k \in 1..Len(classes) : classes[k].form = "nested"}}

\* The tokens from the '{' of a JavaScript class on, by the form of its body.
JSFormTokens(form) ==
  CASE form = "empty" -> <<"{", "}">>
    [] form = "members" ->
         <<"{", "static", "count", "=", "0", ";",
           "constructor", "(", "x", ",", "y", "=", "5", ")",
           "{", "this.x", "=", "x", ";", "this.y", "=", "y", ";", "}",
           "static", "async", "getName", "(", ")", "{", "}",
           "get", "size", "(", ")", "{", "}", "}">>
    [] form = "open" -> <<"{", "setName", "(", "x", ")", "{", "this.x", "=", "x", ";">>
    [] form = "nobrace" -> <<>>
    [] form = "statement" -> <<"x", "=", "5", ";">>
    [] form = "unnamed" -> <<"class", "{", "}">>
    [] form = "function" -> <<"function", "f", "(", ")", "{", "}">>

JSClassTokens(c) ==
  IF c.name = None THEN JSFormTokens(c.form)
  ELSE
  <<"class", c.name>>
  \o (IF c.ext = None THEN <<>> ELSE <<"extends", c.ext>>)
  \o JSFormTokens(c.form)

\* The tokens of a JavaScript input: its classes one after the other.
RECURSIVE JSText(_)
JSText(classes) ==
  IF classes = <<>> THEN <<>>
  ELSE JSClassTokens(Head(classes)) \o JSText(Tail(classes))

JSGeneralClasses ==
  {[name |-> n, ext |-> e, form |-> f] :
     n \in {"A", "B"}, e \in {None, "A", "B", "C"},
     f \in {"empty", "members", "open", "nobrace"}}

\* Text that declares no class: a statement, a class keyword without a
\* name, a function.
JSTexts ==
  {[name |-> None, ext |-> None, form |-> f] :
     f \in {"statement", "unnamed", "function"}}

JSPlainInputs ==
  {<<>>} \cup {<<t>> : t \in JSTexts}
    \cup {<<t, [name |-> "B", ext |-> "A", form |-> "empty"]>> : t \in JSTexts}

JavaScriptInputs == SeqsUpTo(JSGeneralClasses, MaxJSClasses) \cup JSPlainInputs

\* The class names a JavaScript input declares.
JSDeclared(classes) ==
  {classes[i].name : i \in {k \in 1..Len(classes) : classes[k].name # None}}

\* Language identifiers: a base spelling in lower case and the set of its
\* positions written in upper case.
UpperChar(c) ==
  IF \E k \in 1..Len(LowerCase) : LowerCase[k] = c
  THEN UpperCase[CHOOSE k \in 1..Len(LowerCase) : LowerCase[k] = c]
  ELSE c

Spelled(base, upper) ==
  [k \in 1..Len(base) |-> IF k \in upper THEN UpperChar(base[k]) ELSE base[k]]

LanguageBases ==
  {<<"p", "y", "t", "h", "o", "n">>, <<"j", "a", "v", "a">>,
   <<"j", "a", "v", "a", "s", "c", "r", "i", "p", "t">>,
   <<>>, <<"j", "s">>, <<"p", "y">>, <<"j", "a", "v">>,
   <<"j", "a", "v", "a", " ">>, <<"j", "a", "v", "a", "s">>,
   <<"r", "u", "b", "y">>, <<"c", "+", "+">>}

LanguageInputs ==
  {[base |-> base, language |-> Spelled(base, upper)] :
     base \in LanguageBases, upper \in SUBSET (1..10)}

(***************************************************************************)
(* Specification of the extractors: an input is drawn, then parsed.        *)
(***************************************************************************)

InitParsers ==
  /\ pc = "ready"
  /\ \/ op = "java" /\ input \in JavaInputs
     \/ op = "python" /\ input \in PythonInputs
     \/ op = "javascript" /\ input \in JavaScriptInputs
     \/ op = "select" /\ input \in LanguageInputs
  /\ output = None
  /\ catalog = ShippedCatalog

JavaParse ==
  /\ pc = "ready" /\ op = "java"
  /\ output' = JavaParser_parse(JavaText(input))
  /\ pc' = "done"
  /\ UNCHANGED <<op, input, catalog>>

PythonParse ==
  /\ pc = "ready" /\ op = "python"
  /\ output' = PythonParser_parse([syntax_ok |-> input.syntax_ok,
                                   body |-> PyTree(input.classes)])
  /\ pc' = "done"
  /\ UNCHANGED <<op, input, catalog>>

JavaScriptParse ==
  /\ pc = "ready" /\ op = "javascript"
  /\ output' = JavaScriptParser_parse(JSText(input))
  /\ pc' = "done"
  /\ UNCHANGED <<op, input, catalog>>

\* The call of get_parser: it returns an extractor or None.
SelectParser ==
  /\ pc = "ready" /\ op = "select"
  /\ output' = [ok |-> TRUE, parser |-> get_parser(input.language)]
  /\ pc' = "done"
  /\ UNCHANGED <<op, input, catalog>>

NextParsers == JavaParse \/ PythonParse \/ JavaScriptParse \/ SelectParser

SpecParsers == InitParsers /\ [][NextParsers]_vars

(***************************************************************************)
(* Specification of repeated runs: the same text is parsed twice, each run *)
(* in a process of its own.                                                *)
(***************************************************************************)
Seeds == {"ascending", "descending"}

RunInputs ==
  [java |-> JavaScenarioInputs \cup JavaPlainInputs
              \cup SeqsUpTo(JavaGeneralDecls, 1),
   python |-> {[syntax_ok |-> ok, classes |-> cs] :
                 ok \in BOOLEAN, cs \in SeqsUpTo(PyGeneralClasses, 1)}
              \cup {[syntax_ok |-> TRUE, classes |->
                       <<[name |-> "A", decorators |-> <<>>,
                          bases |-> <<PyName("C"), PyName("B")>>,
                          form |-> "nested"],
                         [name |-> "B", decorators |-> <<>>,
                          bases |-> <<>>, form |-> f]>>] :
                      f \in {"pass", "members"}},
   javascript |-> JSPlainInputs \cup SeqsUpTo(JSGeneralClasses, 1)]

\* The text of an input, as the extractor of the language takes it.
CodeOf(language, text) ==
  CASE language = "java" -> JavaText(text)
    [] language = "python" ->
         [syntax_ok |-> text.syntax_ok, body |-> PyTree(text.classes)]
    [] language = "javascript" -> JSText(text)

InitRuns ==
  /\ pc = "ready"
  /\ op \in {"java", "python", "javascript"}
  /\ input \in RunInputs[op]
  /\ output = None
  /\ catalog = ShippedCatalog

FirstRun ==
  /\ pc = "ready"
  /\ \E seed \in Seeds :
       output' = [first |-> RunParser(op, CodeOf(op, input), seed)]
  /\ pc' = "once"
  /\ UNCHANGED <<op, input, catalog>>

SecondRun ==
  /\ pc = "once"
  /\ \E seed \in Seeds :
       output' = [first |-> output.first,
                  second |-> RunParser(op, CodeOf(op, input), seed)]
  /\ pc' = "done"
  /\ UNCHANGED <<op, input, catalog>>

NextRuns == FirstRun \/ SecondRun

SpecRuns == InitRuns /\ [][NextRuns]_vars

\* A call has returned: a model, or an error.
Returned == pc = "done" /\ output.ok

\* The i-th relationship / class of the returned model.
Rels == output.relationships

Classes == output.classes

IsEdge(r, source, target, type) ==
  r.source = source /\ r.target = target /\ r.type = type

(***************************************************************************)
(* C1..C4: the extractors.                                                 *)
(***************************************************************************)

\* The names the input of the current call declares.
Declared ==
  IF op = "java" THEN JavaDeclared(input)
  ELSE IF op = "python" THEN PyDeclared(input.classes)
  ELSE JSDeclared(input)

\* The names the input of the current call extends or implements.
Referenced ==
  IF op = "java"
  THEN {input[i].ext : i \in 1..Len(input)}
       \cup UNION {{input[i].impl[k] : k \in 1..Len(input[i].impl)} :
                     i \in 1..Len(input)}
  ELSE IF op = "python"
  THEN UNION {{input.classes[i].bases[k].id :
                 k \in {j \in 1..Len(input.classes[i].bases) :
                          IsName(input.classes[i].bases[j])}} :
                i \in 1..Len(input.classes)}
  ELSE {input[i].ext : i \in 1..Len(input)}

\* C1: in a model the Java or the Python extractor returns, every
\* inheritance or implementation relationship has a target that the input
\* declares as a class or interface; a base that is not declared gives no
\* relationship.
C1_TargetsDeclared ==
  (Returned /\ op \in {"java", "python"}) =>
     \A i \in 1..Len(Rels) :
        Rels[i].type \in {"inheritance", "implementation"}
        => Rels[i].target \in Declared

\* C1 witness: a Java or Python input that extends a name it does not
\* declare ("C") beside one it declares, parsed: the declared base is kept.
C1_Witness ==
  /\ Returned /\ op \in {"java", "python"}
  /\ "C" \in Referenced /\ "C" \notin Declared
  /\ Rels # <<>>

\* C2: in a model the JavaScript extractor returns, every inheritance
\* relationship has a target that the input declares as a class.
C2_JSTargetsDeclared ==
  (Returned /\ op = "javascript") =>
     \A i \in 1..Len(Rels) :
        Rels[i].type = "inheritance" => Rels[i].target \in Declared

\* The input is the Employee / Person / IPayable scenario.
InScenario == op = "java" /\ input \in JavaScenarioInputs

\* The ClassDefinitions of the returned model with the given name.
ClassesNamed(name) == SelectSeq(Classes, LAMBDA c : c.name = name)

\* C3: the scenario gives exactly three ClassDefinitions, Employee (not
\* abstract), Person and IPayable (an interface), and exactly two
\* relationships, Employee -> Person (inheritance) then
\* Employee -> IPayable (implementation).
C3_Scenario ==
  (Returned /\ InScenario) =>
     /\ Len(Classes) = 3
     /\ Len(ClassesNamed("Employee")) = 1
     /\ Len(ClassesNamed("Person")) = 1
     /\ Len(ClassesNamed("IPayable")) = 1
     /\ ~ClassesNamed("Employee")[1].is_abstract
     /\ ClassesNamed("IPayable")[1].is_interface
     /\ Len(Rels) = 2
     /\ IsEdge(Rels[1], "Employee", "Person", "inheritance")
     /\ IsEdge(Rels[2], "Employee", "IPayable", "implementation")

\* C3 witness: the scenario was parsed, with Employee declared first.
C3_Witness ==
  /\ Returned /\ InScenario
  /\ input[1].name = "Employee"
  /\ Len(Rels) = 2

\* C4: in the scenario Employee has the one attribute salary (private, not
\* static) and the one method getSalary (returns double, no parameters),
\* whatever statements the body of getSalary holds.
C4_EmployeeMembers ==
  (Returned /\ InScenario) =>
     LET e == ClassesNamed("Employee")[1]
     IN /\ Len(e.attributes) = 1
        /\ e.attributes[1].name = "salary"
        /\ e.attributes[1].visibility = "-"
        /\ ~e.attributes[1].is_static
        /\ Len(e.methods) = 1
        /\ e.methods[1].name = "getSalary"
        /\ e.methods[1].return_type = "double"
        /\ e.methods[1].parameters = <<>>

(***************************************************************************)
(* Inputs of the loader: documents and models.                             *)
(***************************************************************************)

MaxDocClasses == 2

MaxDocRels == 2

\* Entries of 'classes': complete ones, ones with a visibility outside the
\* three symbols, and ones a constructor refuses.
DocClassEntries ==
  {[name |-> JStr("A")],
   [name |-> JStr("B"),
    attributes |-> <<[name |-> JStr("x"), type |-> JStr("int"),
                      visibility |-> JStr("-"), is_static |-> JBool(TRUE)]>>,
    methods |-> <<[name |-> JStr("f"), return_type |-> JStr("void"),
                   parameters |-> <<[name |-> JStr("p"), type |-> JStr("int")]>>,
                   visibility |-> JStr("#"), is_abstract |-> JBool(TRUE)]>>,
    is_abstract |-> JBool(TRUE), package |-> JStr("pkg")],
   [name |-> JStr("C"), is_interface |-> JBool(TRUE), package |-> JNull,
    stereotype |-> JStr("entity")],
   [name |-> JStr("A"),
    attributes |-> <<[name |-> JStr("x"), visibility |-> JStr("public")]>>],
   [name |-> JStr("B"),
    methods |-> <<[name |-> JStr("f"), visibility |-> JStr("private")]>>],
   [attributes |-> <<>>],
   [name |-> JStr("A"), attributes |-> <<[type |-> JStr("int")]>>],
   [name |-> JNum(5)]}

\* Entries of 'relationships'.
DocRelEntries ==
  {[source |-> JStr("A"), target |-> JStr("B"), type |-> JStr("inheritance")],
   [source |-> JStr("B"), target |-> JStr("C"), type |-> JStr("composition"),
    label |-> JStr("owns"), multiplicity |-> JStr("1..*")],
   [source |-> JStr("A"), target |-> JStr("C"), type |-> JStr("friendship")],
   [source |-> JStr("A"), type |-> JStr("association")]}

\* The JSON texts handed to the loader.
Documents ==
  {[json_ok |-> TRUE, data |-> [classes |-> cs, relationships |-> rs]] :
     cs \in SeqsUpTo(DocClassEntries, MaxDocClasses) \cup {<<>>},
     rs \in SeqsUpTo(DocRelEntries, MaxDocRels) \cup {<<>>}}
  \cup {[json_ok |-> TRUE, data |-> [classes |-> cs]] :
          cs \in SeqsUpTo(DocClassEntries, 1)}
  \cup {[json_ok |-> TRUE, data |-> [relationships |-> rs]] :
          rs \in SeqsUpTo(DocRelEntries, 1)}
  \cup {[json_ok |-> FALSE, data |-> <<>>]}

ModelClasses ==
  {ClassDefinition("A", <<>>, <<>>, FALSE, FALSE, ""),
   ClassDefinition("B",
     <<Attribute("x", "int", "-", TRUE), Attribute("y", "", "+", FALSE)>>,
     <<Method("f", "void", <<[name |-> "p", type |-> "int"],
                             [name |-> "q", type |-> "String"]>>,
              "#", FALSE, TRUE),
       Method("g", "", <<>>, "+", TRUE, FALSE)>>,
     TRUE, FALSE, "pkg"),
   ClassDefinition("C", <<Attribute("z", "List[...]", "#", FALSE)>>, <<>>,
                   FALSE, TRUE, None),
   ClassDefinition("D", <<>>, <<Method("h", "int", <<[name |-> "p"]>>,
                                       "-", FALSE, FALSE)>>,
                   FALSE, FALSE, "")}

ModelRels ==
  {Relationship("B", "A", "inheritance"),
   Relationship("B", "C", "implementation"),
   [Relationship("D", "B", "composition")
      EXCEPT !.label = "owns", !.multiplicity = "1..*"]}

\* The structural models handed to the serialization.
Models ==
  {[classes |-> cs, relationships |-> rs] :
     cs \in SeqsUpTo(ModelClasses, MaxDocClasses) \cup {<<>>},
     rs \in SeqsUpTo(ModelRels, MaxDocRels) \cup {<<>>}}

(***************************************************************************)
(* Specification of the loader: a document is loaded, or a model is        *)
(* serialized and the document loaded back.                                *)
(***************************************************************************)

InitLoader ==
  /\ pc = "ready"
  /\ \/ op = "manual" /\ input \in Documents
     \/ op = "roundtrip" /\ input \in Models
  /\ output = None
  /\ catalog = ShippedCatalog

ManualParse ==
  /\ pc = "ready" /\ op = "manual"
  /\ output' = ManualInputParser_parse(input)
  /\ pc' = "done"
  /\ UNCHANGED <<op, input, catalog>>

SerializeModel ==
  /\ pc = "ready" /\ op = "roundtrip"
  /\ output' = Serialize(input)
  /\ pc' = "serialized"
  /\ UNCHANGED <<op, input, catalog>>

LoadSerialized ==
  /\ pc = "serialized" /\ op = "roundtrip"
  /\ output' = ManualInputParser_parse(output)
  /\ pc' = "done"
  /\ UNCHANGED <<op, input, catalog>>

NextLoader == ManualParse \/ SerializeModel \/ LoadSerialized

SpecLoader == InitLoader /\ [][NextLoader]_vars

Loaded == pc = "done" /\ op = "manual"

\* The entries of a loaded document.
ClassEntries == GetList(input.data, "classes")

RelEntries == GetList(input.data, "relationships")

Visibilities == {"+", "-", "#"}

RelationshipTypes ==
  {"inheritance", "implementation", "association", "dependency",
   "aggregation", "composition"}

\* A member entry that gives a visibility outside the three symbols.
BadVisibility(member) ==
  /\ "visibility" \in DOMAIN member
  /\ member.visibility.t = "str"
  /\ member.visibility.v \notin Visibilities

HasBadVisibility ==
  \E i \in 1..Len(ClassEntries) :
    \/ \E j \in 1..Len(GetList(ClassEntries[i], "attributes")) :
         BadVisibility(GetList(ClassEntries[i], "attributes")[j])
    \/ \E j \in 1..Len(GetList(ClassEntries[i], "methods")) :
         BadVisibility(GetList(ClassEntries[i], "methods")[j])

HasBadRelType ==
  \E i \in 1..Len(RelEntries) :
    /\ "type" \in DOMAIN RelEntries[i]
    /\ RelEntries[i].type.t = "str"
    /\ RelEntries[i].type.v \notin RelationshipTypes

\* C5: a document with a visibility outside '+', '-', '#' or a relationship
\* type outside the six kinds is rejected and no model is returned.
C5_EnumsRejected ==
  (Loaded /\ input.json_ok /\ (HasBadVisibility \/ HasBadRelType))
    => ~output.ok

\* C6: the loader is atomic: a returned model has one class per class entry
\* and one relationship per relationship entry, in order; otherwise an error
\* is raised and nothing is returned; an entry without `name` after valid
\* entries never yields a model of the earlier entries.
C6_Atomic ==
  Loaded =>
    /\ output.ok =>
         /\ input.json_ok
         /\ Len(output.classes) = Len(ClassEntries)
         /\ \A i \in 1..Len(ClassEntries) :
              /\ "name" \in DOMAIN ClassEntries[i]
              /\ output.classes[i].name = ClassEntries[i].name.v
              /\ Len(output.classes[i].attributes)
                   = Len(GetList(ClassEntries[i], "attributes"))
              /\ Len(output.classes[i].methods)
                   = Len(GetList(ClassEntries[i], "methods"))
         /\ Len(output.relationships) = Len(RelEntries)
         /\ \A i \in 1..Len(RelEntries) :
              output.relationships[i].source = RelEntries[i].source.v
    /\ ~output.ok => DOMAIN output = {"ok", "error"}
    /\ (input.json_ok /\ \E i \in 1..Len(ClassEntries) :
                           "name" \notin DOMAIN ClassEntries[i])
         => ~output.ok

\* A valid class entry followed by one without `name` was refused whole.
C6_Witness ==
  /\ Loaded /\ input.json_ok
  /\ Len(ClassEntries) = 2
  /\ LoadClass(ClassEntries[1]).ok
  /\ "name" \notin DOMAIN ClassEntries[2]
  /\ ~output.ok

\* C7: loading the serialization of a model gives a model equal to it, the
\* orders of classes, relationships, attributes, methods and parameters
\* included.
C7_RoundTrip ==
  (pc = "done" /\ op = "roundtrip") =>
    /\ output.ok
    /\ output.classes = input.classes
    /\ output.relationships = input.relationships

\* A model of two classes with members and parameters and two relationships
\* went through the round trip.
C7_Witness ==
  /\ pc = "done" /\ op = "roundtrip"
  /\ Len(input.classes) = 2 /\ Len(input.relationships) = 2
  /\ input.classes[1] # input.classes[2]
  /\ \E i \in 1..2 :
       /\ Len(input.classes[i].attributes) = 2
       /\ \E j \in 1..Len(input.classes[i].methods) :
            Len(input.classes[i].methods[j].parameters) = 2
  /\ output.ok /\ Len(output.classes) = 2

(***************************************************************************)
(* Inputs of the analyzer: one method, or one statement with a literal.    *)
(***************************************************************************)

MaxLines == 33

MaxParams == 7

RECURSIVE ParamTokens(_)
ParamTokens(n) ==
  IF n = 0 THEN <<>>
  ELSE IF n = 1 THEN <<"int", "p">>
  ELSE <<"int", "p", ",">> \o ParamTokens(n - 1)

\* lines joined by line breaks
RECURSIVE JoinLines(_)
JoinLines(lines) ==
  IF Len(lines) = 1 THEN lines[1]
  ELSE lines[1] \o <<NL>> \o JoinLines(Tail(lines))

\* The least number of lines a method of a shape takes.
MinLines(shape) ==
  CASE shape = "flat" -> 1 [] shape = "block" -> 4 [] shape = "deep" -> 6

\* Line k of a method of `lines` lines, k from 2 to lines - 1.
BodyLine(shape, lines, k) ==
  CASE shape # "flat" /\ k = 2 -> <<"if", "(", "a", ")", "{">>
    [] shape # "flat" /\ k = lines - 1 -> <<"}">>
    [] shape = "deep" /\ k = 3 -> <<"for", "(", "b", ")", "{">>
    [] shape = "deep" /\ k = lines - 2 -> <<"}">>
    [] OTHER -> <<"a", ";">>

\* A method spanning `lines` lines, from its signature to its '}'.
MethodTokens(mod, static, params, lines, shape, throws) ==
  LET sig == <<mod>> \o (IF static THEN <<"static">> ELSE <<>>)
               \o <<"void", "m", "(">> \o ParamTokens(params) \o <<")">>
               \o (IF throws THEN <<"throws", "E">> ELSE <<>>) \o <<"{">>
  IN IF lines = 1 THEN sig \o <<"}">>
     ELSE JoinLines([k \in 1..lines |->
                       IF k = 1 THEN sig
                       ELSE IF k = lines THEN <<"}">>
                       ELSE BodyLine(shape, lines, k)])

MethodInput(mod, static, params, lines, shape, throws) ==
  [kind |-> "method", params |-> params, lines |-> lines, shape |-> shape,
   code |-> MethodTokens(mod, static, params, lines, shape, throws)]

MethodInputs ==
  {MethodInput(mod, static, params, lines, shape, FALSE) :
     mod \in AccessModifiers, static \in BOOLEAN, params \in {0, 1},
     lines \in 1..MaxLines, shape \in {"flat", "block", "deep"}}
  \cup {MethodInput(mod, static, params, lines, "flat", throws) :
          mod \in AccessModifiers, static \in BOOLEAN,
          params \in 0..MaxParams, lines \in {1, 3}, throws \in BOOLEAN}

Literals ==
  {"0", "1", "-1", "100", "42", "10", "15", "1000", "0.5", "-0", "7", "-7",
   "5", "3.14"}

\* What stands before the literal.
MagicContexts ==
  {<<"x", "=">>, <<"return">>, <<"f", "(">>, <<"f", "(", "a", ",">>,
   <<"x", "=", "a", "+">>, <<"x", "=", "a", "-">>, <<"x", "=", "a", "*">>,
   <<"x", "=", "a", "/">>, <<"if", "(", "a", "==">>, <<"x">>}

\* What stands after the literal.
MagicTails ==
  {<<";">>, <<")">>, <<",", "b", ")">>, <<>>, <<NL>>, <<"+", "b", ";">>}

MagicInputs ==
  {[kind |-> "magic", literal |-> l, code |-> c \o <<l>> \o t] :
     l \in Literals, c \in MagicContexts, t \in MagicTails}
  \cup {[kind |-> "call",
         code |-> <<"f", "(", l[1], ",", l[2], ",", l[3], ")", ";">>] :
          l \in [1..3 -> {"1", "42", "-7"}]}

SmellInputs ==
  {i \in MethodInputs : i.lines >= MinLines(i.shape)} \cup MagicInputs

MaxDepth == 4

\* The lines of `depth` blocks one inside the other, each opened by a line
\* ending in '{' and closed by a line starting with '}'; the innermost one
\* holds a statement or nothing.
RECURSIVE NestedLines(_, _, _)
NestedLines(keyword, depth, inner) ==
  IF depth = 0 THEN (IF inner THEN << <<"x", "(", ")", ";">> >> ELSE <<>>)
  ELSE << <<keyword, "(", "a", ")", "{">> >>
       \o NestedLines(keyword, depth - 1, inner)
       \o << <<"}">> >>

\* The lines inside a method, or inside a method of a class, or on their
\* own.
Wrapped(wrap, lines) ==
  CASE wrap = "none" -> lines
    [] wrap = "method" ->
         << <<"public", "void", "m", "(", ")", "{">> >> \o lines
         \o << <<"}">> >>
    [] wrap = "class" ->
         << <<"class", "A", "{">>, <<"public", "void", "m", "(", ")", "{">> >>
         \o lines \o << <<"}">>, <<"}">> >>

\* The number of blocks around the lines.
WrapLevels(wrap) ==
  CASE wrap = "none" -> 0 [] wrap = "method" -> 1 [] wrap = "class" -> 2

NestingInputs ==
  {[kind |-> "nesting", keyword |-> keyword, depth |-> depth, wrap |-> wrap,
    inner |-> inner,
    code |-> JoinLines(Wrapped(wrap,
               (IF blank THEN << <<>> >> ELSE <<>>)
               \o NestedLines(keyword, depth, inner)))] :
     keyword \in {"if", "for", "while"}, depth \in 1..MaxDepth,
     wrap \in {"none", "method", "class"}, inner \in BOOLEAN,
     blank \in BOOLEAN}

\* Statements for the count of decision points, one per line, and the
\* number of decision-introducing constructs (conditionals, loops, switch
\* cases, exception handlers) each holds.
StatementTokens(statement) ==
  CASE statement = "call" -> <<"x", "(", ")", ";">>
    [] statement = "if" -> <<"if", "(", "a", ")", "{", "}">>
    [] statement = "if_else" ->
         <<"if", "(", "a", ")", "{", "}", "else", "{", "}">>
    [] statement = "else_if" ->
         <<"if", "(", "a", ")", "{", "}", "else", "if", "(", "b", ")", "{",
           "}">>
    [] statement = "for" -> <<"for", "(", "b", ")", "{", "}">>
    [] statement = "while" -> <<"while", "(", "a", ")", "{", "}">>
    [] statement = "case" -> <<"case", "42", ":", "x", "(", ")", ";">>
    [] statement = "catch" ->
         <<"try", "{", "}", "catch", "(", "Exception", "e", ")", "{", "}">>

Statements ==
  {"call", "if", "if_else", "else_if", "for", "while", "case", "catch"}

Constructs(statement) ==
  CASE statement = "call" -> 0
    [] statement = "else_if" -> 2
    [] OTHER -> 1

MaxStatements == 2

\* The empty text and the texts of 1..MaxStatements statements.
BranchInputs ==
  {[kind |-> "branches", statements |-> <<>>, code |-> <<>>]}
  \cup {[kind |-> "branches", statements |-> st,
          code |-> JoinLines([k \in 1..Len(st) |-> StatementTokens(st[k])])] :
           st \in SeqsUpTo(Statements, MaxStatements)}

ComplexityInputs == NestingInputs \cup BranchInputs

\* Texts for analyze_file: one or two snippets, one per line.  Each
\* snippet is matched by some heuristics of the four categories, the last
\* by a match of more than 50 characters.
Snippets ==
  {<<>>,
   <<"public", "class", "A", "{", "}">>,
   <<"class", "class", "A", "{", "}">>,
   <<"interface", "I", "{", "}">>,
   <<"try", "{", "}", "catch", "(", "Exception", "e", ")", "{", "}">>,
   <<"public", "static", "final", "int", "x", "=", "42", ";">>,
   <<"//", "TODO", "x", "=", "1", ";">>,
   <<"if", "(", "a", "&&", "b", "||", "x", ")", "{">>,
   <<"int", "x", "=", "new", "Random", "(", ")", ";">>,
   <<"DocumentBuilderFactory", "f", ";">>,
   <<"for", "(", ";", ";", ")", "{", "x", "=", "7", ";", "new", "Foo",
     "(", ")", ";", "}">>,
   <<"public", "Foo", "createFoo", "(", ")", "{", "}">>,
   <<"class", "A", "implements", "Observer", "{", "}">>,
   <<"protected", "Foo", "createFoo", "(", "int", "a", ",", "int", "b", ",",
     "int", "p", ",", "int", "x", ",", "int", "f", ",", "int", "e", ")">>}

FileTexts ==
  Snippets \cup {a \o <<NL>> \o b : a \in Snippets, b \in Snippets}

\* Catalogs: the shipped one, and the shipped one with the pattern of one
\* rule replaced by a malformed one.
Catalogs ==
  {ShippedCatalog}
    \cup {[ShippedCatalog EXCEPT ![rule] = "malformed"] : rule \in Rules}

FileInputs ==
  {[kind |-> "file", code |-> code,
    file_path |-> <<"A", ".", "j", "a", "v", "a">>] : code \in FileTexts}

\* Collections for analyze_folder.  A path is its sequence of characters.
Path(folder, name) == folder \o <<"/", name, ".", "j", "a", "v", "a">>

Folders ==
  [a |-> <<"p", "k", "g", "/", "a">>,
   ab |-> <<"p", "k", "g", "/", "a", "b">>,
   b |-> <<"p", "k", "g", "/", "b">>,
   pkg |-> <<"p", "k", "g">>,
   lib |-> <<"l", "i", "b">>,
   root |-> <<>>]

FilePaths ==
  <<Path(Folders.a, "X"), Path(Folders.a, "Y"), Path(Folders.a, "Z"),
    Path(Folders.ab, "X"), Path(Folders.b, "X")>>

\* A content with n class declarations, n in 0..2.
ContentWith(n) ==
  CASE n = 0 -> <<"interface", "I", "{", "}">>
    [] n = 1 -> <<"public", "class", "A", "{", NL, "}">>
    [] n = 2 -> <<"class", "A", "{", "}", NL, "class", "Foo", "extends",
                  "A", "{", "}">>

\* The collections: any of the paths, in the order above, each with a
\* content of 0, 1 or 2 classes (-1: the path is not in the collection).
RECURSIVE Collection(_, _)
Collection(choice, i) ==
  IF i > Len(FilePaths) THEN <<>>
  ELSE IF choice[i] = -1 THEN Collection(choice, i + 1)
  ELSE <<[file_path |-> FilePaths[i], content |-> ContentWith(choice[i]),
          classes |-> choice[i]]>> \o Collection(choice, i + 1)

FolderInputs ==
  {[kind |-> "folder", folder_path |-> folder_path,
    java_files |-> Collection(choice, 1)] :
     folder_path \in {Folders.a, Folders.b, Folders.pkg, Folders.lib,
                      Folders.root},
     choice \in [1..Len(FilePaths) -> -1..2]}

(***************************************************************************)
(* Specification of the analyzer: the code smells of one text, or its      *)
(* complexity estimate.                                                    *)
(***************************************************************************)

InitSmells ==
  /\ pc = "ready"
  /\ \/ op = "smells" /\ input \in SmellInputs
     \/ op = "complexity" /\ input \in ComplexityInputs
  /\ output = None
  /\ catalog = ShippedCatalog

DetectSmells ==
  /\ pc = "ready" /\ op = "smells"
  /\ output' = DetectCodeSmells(input.code)
  /\ pc' = "done"
  /\ UNCHANGED <<op, input, catalog>>

Estimate ==
  /\ pc = "ready" /\ op = "complexity"
  /\ output' = EstimateComplexity(input.code)
  /\ pc' = "done"
  /\ UNCHANGED <<op, input, catalog>>

NextSmells == DetectSmells \/ Estimate

SpecSmells == InitSmells /\ [][NextSmells]_vars

(***************************************************************************)
(* Specification of the analyzer: analyze_file on a text under a catalog,  *)
(* analyze_folder on a collection of files under the shipped catalog.      *)
(***************************************************************************)
InitAnalyzer ==
  /\ pc = "ready"
  /\ \/ op = "file" /\ input \in FileInputs /\ catalog \in Catalogs
     \/ op = "folder" /\ input \in FolderInputs /\ catalog = ShippedCatalog
  /\ output = None

analyze_file ==
  /\ pc = "ready" /\ op = "file"
  /\ output' = AnalyzeFile(catalog, input.code, input.file_path)
  /\ pc' = "done"
  /\ UNCHANGED <<op, input, catalog>>

analyze_folder ==
  /\ pc = "ready" /\ op = "folder"
  /\ output' = AnalyzeFolder(catalog, input.folder_path, input.java_files)
  /\ pc' = "done"
  /\ UNCHANGED <<op, input, catalog>>

NextAnalyzer == analyze_file \/ analyze_folder

SpecAnalyzer == InitAnalyzer /\ [][NextAnalyzer]_vars

(***************************************************************************)
(* Specification of concurrent calls: MaxCalls calls of parse and          *)
(* analyze_file run interleaved.  pc, op, input and output hold one entry  *)
(* per call; output[c] is the frame of call c: its local class_names, the  *)
(* parts of its report computed so far and, once it has returned, its      *)
(* result.  The catalog is the one object the analysis calls share.        *)
(***************************************************************************)
MaxCalls == 2

Calls == 1..MaxCalls

\* The inputs of a call, by operation.
JavaCall(name, ext, form) ==
  <<[mods |-> <<>>, kind |-> "class", name |-> name, ext |-> ext,
     impl |-> <<>>, form |-> form]>>

PythonCall(ok, name, bases, form) ==
  [syntax_ok |-> ok,
   classes |-> <<[name |-> name, decorators |-> <<>>, bases |-> bases,
                  form |-> form]>>]

AnalyzeCall(code) ==
  [code |-> code, file_path |-> <<"A", ".", "j", "a", "v", "a">>]

CallInputs ==
  [java |-> <<JavaCall("A", None, "empty"), JavaCall("A", "B", "empty"),
              JavaCall("B", None, "empty"), JavaCall("B", None, "members")>>,
   python |-> <<PythonCall(TRUE, "A", <<PyName("B")>>, "pass"),
                PythonCall(FALSE, "A", <<PyName("B")>>, "pass"),
                PythonCall(TRUE, "B", <<>>, "members")>>,
   analyze |-> <<AnalyzeCall(<<"public", "class", "A", "{", "}">>),
                 AnalyzeCall(<<"public", "static", "final", "int", "x", "=",
                               "42", ";">>),
                 AnalyzeCall(<<"class", "A", "implements", "Observer", "{",
                               "}">>)>>]

\* class_names = set() followed by the first pass: the names are stored in
\* the frame of the call.
StoreNames_Shared(frames, c, names) ==
  [k \in DOMAIN frames |->
     [frames[k] EXCEPT !.class_names = frames[k].class_names \cup names]]

StoreNames(frames, c, names) == [frames EXCEPT ![c].class_names = names]

\* The parts of the report in the order analyze_file computes them, and
\* the part computed at a stage.
Stages ==
  <<"metrics", "code_smells", "security_issues", "performance_issues",
    "design_patterns", "complexity">>

StageAfter(stage) ==
  IF stage = Stages[Len(Stages)] THEN "done"
  ELSE Stages[1 + CHOOSE k \in 1..Len(Stages) : Stages[k] = stage]

ReportPart(cat, code, stage) ==
  CASE stage = "metrics" -> CalculateMetrics(code)
    [] stage = "code_smells" -> DetectCodeSmells(code)
    [] stage = "security_issues" -> DetectSecurityIssues(code)
    [] stage = "performance_issues" -> DetectPerformanceIssues(code)
    [] stage = "design_patterns" -> DetectDesignPatterns(cat, code)
    [] stage = "complexity" -> EstimateComplexity(code)

StageRaises(cat, code, stage) ==
  \/ stage = "code_smells" /\ SmellsRaise(cat, code)
  \/ stage = "security_issues" /\ SecurityRaises(cat)
  \/ stage = "performance_issues" /\ PerformanceRaises(cat)

NewFrame == [class_names |-> {}, results |-> <<>>, result |-> None]

InitCalls ==
  /\ pc = [c \in Calls |-> "ready"]
  /\ op \in [Calls -> {"java", "python", "analyze"}]
  /\ \E choice \in [Calls -> 1..4] :
       /\ \A c \in Calls : choice[c] <= Len(CallInputs[op[c]])
       /\ input = [c \in Calls |-> CallInputs[op[c]][choice[c]]]
  /\ output = [c \in Calls |-> NewFrame]
  /\ catalog = ShippedCatalog

\* First pass of a parse call; a Python text that does not parse ends the
\* call with the error.
CollectNames(c) ==
  /\ pc[c] = "ready" /\ op[c] \in {"java", "python"}
  /\ IF op[c] = "python" /\ ~input[c].syntax_ok
     THEN /\ output' = [output EXCEPT
                          ![c].result = Raised("Error parsing Python code")]
          /\ pc' = [pc EXCEPT ![c] = "done"]
     ELSE /\ output' =
               StoreNames(output, c,
                          IF op[c] = "java"
                          THEN JavaClassNames(JavaText(input[c]))
                          ELSE PyClassNames(PyTree(input[c].classes)))
          /\ pc' = [pc EXCEPT ![c] = "names"]
  /\ UNCHANGED <<op, input, catalog>>

\* return UMLDiagram(classes=classes, relationships=relationships) of
\* call c, r being what its second pass has built.
ReturnDiagram(c, r) ==
  /\ output' = [output EXCEPT
                  ![c].result = UMLDiagram(r.classes, r.relationships)]
  /\ pc' = [pc EXCEPT ![c] = "done"]

\* Second pass of a parse call and its return.
Classify(c) ==
  /\ pc[c] = "names"
  /\ LET code == JavaText(input[c])
     IN ReturnDiagram(c,
          IF op[c] = "java"
          THEN JavaSecondPass(code, JavaClassMatches(code, 1), 1,
                              output[c].class_names)
          ELSE PySecondPass(PyClassDefsIn(PyWalk(PyTree(input[c].classes))),
                            output[c].class_names))
  /\ UNCHANGED <<op, input, catalog>>

\* Call c keeps the part of the report computed at a stage, and returns
\* the report after the last one.
StorePart(c, stage, part) ==
  LET results == output[c].results @@ (stage :> part)
  IN /\ output' =
          [output EXCEPT
             ![c].results = results,
             ![c].result =
               IF StageAfter(stage) = "done"
               THEN [ok |-> TRUE, file_path |-> input[c].file_path]
                      @@ results
               ELSE None]
     /\ pc' = [pc EXCEPT ![c] = StageAfter(stage)]

\* One part of the report of an analyze_file call; the call returns after
\* the last part, or raises.
AnalyzeStep(c) ==
  /\ op[c] = "analyze" /\ pc[c] \in {"ready"} \cup {Stages[k] : k \in 2..6}
  /\ LET stage == IF pc[c] = "ready" THEN Stages[1] ELSE pc[c]
     IN IF StageRaises(catalog, input[c].code, stage)
        THEN /\ output' = [output EXCEPT ![c].result = Raised("re.error")]
             /\ pc' = [pc EXCEPT ![c] = "done"]
        ELSE StorePart(c, stage, ReportPart(catalog, input[c].code, stage))
  /\ UNCHANGED <<op, input, catalog>>

NextCalls ==
  \E c \in Calls : CollectNames(c) \/ Classify(c) \/ AnalyzeStep(c)

SpecCalls == InitCalls /\ [][NextCalls]_vars

(***************************************************************************)
(* The diagram view of main (app.py) and get_download_link.  Rendering by  *)
(* Graphviz is taken to succeed; what it returns is kept as the format and *)
(* the kind of the diagram.                                                *)
(***************************************************************************)
SVG == <<"S", "V", "G">>

PNG == <<"P", "N", "G">>

\* The parameters, after self, of the rendering methods of UMLGenerator.
UMLGenerator_parameters(method) ==
  CASE method = "generate_svg" -> <<"uml_diagram">>
    [] method = "generate_png_bytes" -> <<"uml_diagram">>
    [] method = "generate_package_svg" -> <<"uml_diagram">>
    [] method = "generate_package_png_bytes" -> <<"uml_diagram">>

\* A call generator.method(*arguments): Python raises TypeError when the
\* number of positional arguments is not the number of parameters (none
\* of them has a default); otherwise the method returns its rendering.
CallGenerator(method, arguments) ==
  IF Len(arguments) # Len(UMLGenerator_parameters(method))
  THEN Raised("TypeError")
  ELSE [ok |-> TRUE,
        value |-> [format |-> IF method \in {"generate_svg",
                                             "generate_package_svg"}
                              THEN "svg" ELSE "png",
                   kind |-> IF method \in {"generate_svg",
                                           "generate_png_bytes"}
                            THEN "class" ELSE "package",
                   diagram |-> arguments[1]]]

\* get_download_link(diagram, file_format, diagram_type, selected_package);
\* selected_package is None when the caller leaves it out.
get_download_link(diagram, file_format, diagram_type, selected_package) ==
  LET svg == file_format = <<"s", "v", "g">>
      r == IF diagram_type = "package"
           THEN CallGenerator(IF svg THEN "generate_package_svg"
                              ELSE "generate_package_png_bytes", <<diagram>>)
           ELSE CallGenerator(IF svg THEN "generate_svg"
                              ELSE "generate_png_bytes",
                              <<diagram, selected_package>>)
  IN IF ~r.ok THEN r
     ELSE [ok |-> TRUE,
           href |-> [mime |-> IF svg THEN "image/svg+xml" ELSE "image/png",
                     data |-> r.value],
           ext |-> IF svg THEN "svg" ELSE "png"]

\* The entries of the package filter: "All Packages", then the packages of
\* the classes in the order of their first appearance.
RECURSIVE Packages(_, _)
Packages(classes, packages) ==
  IF classes = <<>> THEN packages
  ELSE LET cls == Head(classes)
       IN Packages(Tail(classes),
                   IF cls.package # ""
                      /\ \A k \in 1..Len(packages) : packages[k] # cls.package
                   THEN Append(packages, cls.package) ELSE packages)

\* Diagrams, and the choices of the user in the view.
ViewClasses ==
  {ClassDefinition(n, <<>>, <<>>, FALSE, FALSE, pkg) :
     n \in {"A"}, pkg \in {"", "p", "q"}}

ViewDiagrams ==
  {UMLDiagram(classes, <<>>) :
     classes \in {<<>>} \cup SeqsUpTo(ViewClasses, 2)}

ViewInputs ==
  {[diagram |-> d, diagram_type |-> t, selected_package |-> pkg,
    download_format |-> f] :
     d \in ViewDiagrams, t \in {"Class Diagram", "Package Diagram"},
     pkg \in {"All Packages", "p", "q"}, f \in {SVG, PNG}}

InitView ==
  /\ pc = "ready"
  /\ op = "view"
  /\ input \in ViewInputs
  /\ \E k \in 1..Len(Packages(input.diagram.classes, <<"All Packages">>)) :
       Packages(input.diagram.classes, <<"All Packages">>)[k]
         = input.selected_package
  /\ output = [shown |-> None, link |-> None, error |-> None]
  /\ catalog = ShippedCatalog

\* if not st.session_state.uml_diagram.classes: warning, return
Validate ==
  /\ pc = "ready"
  /\ pc' = IF input.diagram.classes = <<>> THEN "warned" ELSE "render"
  /\ UNCHANGED <<op, input, output, catalog>>

\* The diagram is rendered and shown; an exception is caught by the view
\* and reported with st.error, and the rest of the view is skipped.
ShowDiagram ==
  /\ pc = "render"
  /\ LET r == IF input.diagram_type = "Package Diagram"
              THEN CallGenerator("generate_package_svg", <<input.diagram>>)
              ELSE IF input.selected_package = "All Packages"
              THEN CallGenerator("generate_svg", <<input.diagram>>)
              ELSE CallGenerator("generate_svg",
                                 <<input.diagram, input.selected_package>>)
     IN IF r.ok
        THEN /\ output' = [output EXCEPT !.shown = r.value]
             /\ pc' = "shown"
        ELSE /\ output' = [output EXCEPT !.error = r.error]
             /\ pc' = "error"
  /\ UNCHANGED <<op, input, catalog>>

\* The download link of the shown diagram.
DownloadLink ==
  /\ pc = "shown"
  /\ LET r == IF input.diagram_type = "Package Diagram"
              THEN get_download_link(input.diagram,
                                     Lower(input.download_format),
                                     "package", None)
              ELSE IF input.selected_package = "All Packages"
              THEN get_download_link(input.diagram,
                                     Lower(input.download_format),
                                     "class", None)
              ELSE get_download_link(input.diagram,
                                     Lower(input.download_format),
                                     "class", input.selected_package)
     IN IF r.ok
        THEN /\ output' = [output EXCEPT !.link = <<r.href, r.ext>>]
             /\ pc' = "linked"
        ELSE /\ output' = [output EXCEPT !.error = r.error]
             /\ pc' = "error"
  /\ UNCHANGED <<op, input, catalog>>

\* st.button("Clear Diagram") is reached.
ClearDiagramControl ==
  /\ pc = "linked"
  /\ pc' = "done"
  /\ UNCHANGED <<op, input, output, catalog>>

NextView == Validate \/ ShowDiagram \/ DownloadLink \/ ClearDiagramControl

SpecView == InitView /\ [][NextView]_vars

Analyzed == pc = "done" /\ op = "smells"

\* C8: a matched method gives a long_method finding if and only if it
\* spans more than 30 lines, its signature line and the line of its closing
\* brace included.
C8_LongMethodIffOver30 ==
  (Analyzed /\ input.kind = "method"
     /\ LongMethodMatches(input.code, 1) # <<>>)
    => (output.long_method # <<>> <=> input.lines > 30)

\* C9: a matched signature gives a too_many_parameters finding if and only
\* if it has more than 5 comma-separated parameters; the finding records
\* the method name, the count and the threshold.
C9_TooManyParametersIffOver5 ==
  (Analyzed /\ input.kind = "method") =>
    output.too_many_parameters =
      IF input.params > 5
      THEN <<[name |-> "m", parameter_count |-> input.params,
              threshold |-> 5]>>
      ELSE <<>>

\* A signature of 6 parameters gave its finding.
C9_Witness ==
  /\ Analyzed /\ input.kind = "method" /\ input.params = 6
  /\ Len(output.too_many_parameters) = 1
  /\ output.too_many_parameters[1].parameter_count = 6

AllowList == {"0", "1", "-1", "100"}

\* C10: a literal 0, 1, -1 or 100 in an assignment, return or operator
\* context gives no magic_numbers finding, and `x = 42;` gives exactly one
\* finding, whose number is 42.
C10_MagicNumbers ==
  (Analyzed /\ input.kind = "magic") =>
    /\ input.literal \in AllowList => output.magic_numbers = <<>>
    /\ input.code = <<"x", "=", "42", ";">> =>
         output.magic_numbers = <<[number |-> <<"4", "2">>]>>

\* The literal 100 was matched in a return context and excluded.
C10_Witness ==
  /\ Analyzed /\ input.kind = "magic"
  /\ input.code = <<"return", "100", ";">>
  /\ MagicMatches(input.code, 1) # <<>>
  /\ output.magic_numbers = <<>>

Estimated == pc = "done" /\ op = "complexity"

\* The depth of the deepest non-blank line of a nesting input: the blocks
\* around the conditionals count, and an innermost block that holds no line
\* is not entered.
DeepestLine ==
  input.depth + WrapLevels(input.wrap) - (IF input.inner THEN 0 ELSE 1)

\* C11 (as stated): for a method containing conditional blocks nested three
\* deep the reported max_nesting_depth is 3 and cognitive_complexity is
\* cyclomatic_complexity + 2 * max_nesting_depth.
C11_DepthThree ==
  (Estimated /\ input.kind = "nesting" /\ input.wrap = "method"
     /\ input.depth = 3) =>
    /\ output.max_nesting_depth = 3
    /\ output.cognitive_complexity
         = output.cyclomatic_complexity + 2 * output.max_nesting_depth

\* C11 (amended): the reported max_nesting_depth is the brace depth of the
\* deepest non-blank line, the enclosing method and class blocks included:
\* 4 for a method whose three nested conditional blocks hold a statement, 3
\* for the three blocks on their own; cognitive_complexity is
\* cyclomatic_complexity + 2 * max_nesting_depth.
C11_DepthOfDeepestLine ==
  (Estimated /\ input.kind = "nesting") =>
    /\ output.max_nesting_depth = DeepestLine
    /\ output.cognitive_complexity
         = output.cyclomatic_complexity + 2 * output.max_nesting_depth
    /\ output.cyclomatic_complexity = 1 + input.depth

\* A method with three nested conditionals around a statement was measured
\* at depth 4.
C11_Witness ==
  /\ Estimated /\ input.kind = "nesting" /\ input.wrap = "method"
  /\ input.depth = 3 /\ input.inner
  /\ output.max_nesting_depth = 4
  /\ output.cognitive_complexity = output.cyclomatic_complexity + 8

Aggregated == pc = "done" /\ op = "folder"

\* The files of the input collection whose path starts with the prefix.
UnderPrefix ==
  {i \in 1..Len(input.java_files) :
     PathStartsWith(input.java_files[i].file_path, input.folder_path)}

FileAnalyzed == pc = "done" /\ op = "file"

\* Matching the heuristic fails under the catalog of the state: its
\* pattern is malformed, or it is magic_numbers, the exclusion sub-rule
\* is malformed and there is a number to apply it to.
MatchingFails(name) ==
  \/ Malformed(catalog, name)
  \/ /\ name = "magic_numbers"
     /\ Malformed(catalog, "magic_numbers.exclude")
     /\ MagicMatches(input.code, 1) # <<>>

\* C13: when matching one heuristic of any category fails, analyze_file
\* still returns a report, in which that heuristic has no finding and
\* every other heuristic has the findings it has under the shipped
\* catalog.
C13_FailureIsolated ==
  FileAnalyzed =>
    LET alone == AnalyzeFile(ShippedCatalog, input.code, input.file_path)
    IN /\ output.ok
       /\ \A category \in {"code_smells", "security_issues",
                           "performance_issues", "design_patterns"} :
            \A name \in DOMAIN alone[category] :
              output[category][name] =
                IF MatchingFails(name) THEN <<>> ELSE alone[category][name]

(***************************************************************************)
(* C14..C18: failure, selection, determinism and pass order of the         *)
(* extractors.                                                             *)
(***************************************************************************)

\* C14: the Java and the JavaScript extractor return a model for every
\* text, the empty text and texts without a declaration or with malformed
\* declarations included; when the text declares nothing, the model has no
\* class and no relationship.
C14_PatternExtractorsNeverFail ==
  (pc = "done" /\ op \in {"java", "javascript"}) =>
    /\ output.ok
    /\ Declared = {} => output.classes = <<>> /\ output.relationships = <<>>

\* C14 witness: a Java text that is not empty and declares nothing (a
\* statement, a class keyword without a name, an enum) gave an empty model.
C14_Witness ==
  /\ pc = "done" /\ op = "java"
  /\ input # <<>> /\ Declared = {}
  /\ output.ok /\ output.classes = <<>> /\ output.relationships = <<>>

\* C15: the Python extractor fails exactly when the text does not parse
\* into a syntax tree; a failed call returns an error and no model, none
\* of the classes of the text; a text that parses gives a model.
C15_PythonFailsIffUnparsable ==
  (pc = "done" /\ op = "python") =>
    /\ output.ok <=> input.syntax_ok
    /\ ~output.ok => DOMAIN output = {"ok", "error"}

\* C15 witness: a text with two classes and a syntax error was rejected.
C15_Witness ==
  /\ pc = "done" /\ op = "python"
  /\ ~input.syntax_ok /\ Len(input.classes) = 2
  /\ ~output.ok

\* C16: get_parser maps python, java and javascript, written in any
\* letter case, each to the extractor of that language, and every other
\* identifier to None, without raising.
C16_Selection ==
  (pc = "done" /\ op = "select") =>
    /\ output.ok
    /\ output.parser =
         CASE input.base = <<"p", "y", "t", "h", "o", "n">> -> "PythonParser"
           [] input.base = <<"j", "a", "v", "a">> -> "JavaParser"
           [] input.base = <<"j", "a", "v", "a", "s", "c", "r", "i", "p", "t">>
                -> "JavaScriptParser"
           [] OTHER -> None

\* C16 witness: the identifier Java, as main passes it, selects the Java
\* extractor.
C16_Witness ==
  /\ pc = "done" /\ op = "select"
  /\ input.language = <<"J", "a", "v", "a">>
  /\ output.parser = "JavaParser"

Decls == IF op = "python" THEN input.classes ELSE input

ExtendsOf(i) ==
  IF op = "python"
  THEN {Decls[i].bases[k].id :
          k \in {j \in 1..Len(Decls[i].bases) : IsName(Decls[i].bases[j])}}
  ELSE {Decls[i].ext} \ {None}

ImplementsOf(i) ==
  IF op = "python" THEN {}
  ELSE {Decls[i].impl[k] : k \in 1..Len(Decls[i].impl)}

HasEdge(source, target, type) ==
  \E k \in 1..Len(Rels) : IsEdge(Rels[k], source, target, type)

\* Every declaration of the input has a body (a Java header without '{'
\* runs into the declaration that follows it).
WithBodies == op = "java" => \A i \in 1..Len(Decls) : Decls[i].form # "nobrace"

Alone(operation, text) ==
  IF operation = "analyze"
  THEN AnalyzeFile(ShippedCatalog, text.code, text.file_path)
  ELSE Parse(operation, CodeOf(operation, text))

\* C19: under every interleaving of the calls, a call that has returned
\* has the result it has when run alone, whatever the other calls have
\* done before and do after, and the catalog is the one all calls started
\* with.
C19_Independent ==
  /\ catalog = ShippedCatalog
  /\ \A c \in Calls :
       pc[c] = "done" => output[c].result = Alone(op[c], input[c])

\* C19 witness: a call that extends B has returned without the
\* relationship while another call, whose text declares B, is between its
\* two passes.
C19_Witness ==
  \E c, d \in Calls :
    /\ c # d
    /\ pc[c] = "done" /\ op[c] = "java" /\ input[c][1].ext = "B"
    /\ output[c].result.relationships = <<>>
    /\ op[d] = "java" /\ pc[d] = "names" /\ "B" \in output[d].class_names

(***************************************************************************)
(* C20: the class diagram view.                                            *)
(***************************************************************************)

\* C20: for a diagram with at least one class, showing the class diagram
\* and producing its download link, in SVG or PNG, with "All Packages" or
\* a package selected, raises no error: the view does not end in the
\* error report, and once the link step is over the link is an
\* (href, extension) pair.
C20_ClassDiagramDownload ==
  (input.diagram_type = "Class Diagram" /\ input.diagram.classes # <<>>) =>
    /\ pc # "error"
    /\ pc \in {"linked", "done"} =>
         /\ output.link # None
         /\ output.link[2] \in {"svg", "png"}

(***************************************************************************)
(* C21: the member region of a Java class.                                 *)
(***************************************************************************)

\* The declarations of the Java text of the state that are followed at
\* once by a '{', and the block that '{' opens.
OwnBlockDecls(code) ==
  SelectSeq(JavaClassMatches(code, 1), LAMBDA m : At(code, m.end) = "{")

OwnBlock(code, m) == ClassBody(code, m.end)

\* The class of the returned model built for a declaration: the classes
\* are appended in the order of the declarations, one per declaration
\* whose body was looked for and found.
ClassBuiltFor(code, m) ==
  LET kept == SelectSeq(JavaClassMatches(code, 1),
                        LAMBDA d : JavaClassStart(code, d) # 0)
      k == CHOOSE i \in 1..Len(kept) : kept[i].start = m.start
  IN Classes[k]

\* C21: in the model the Java extractor returns, the attributes and the
\* methods of every class whose declaration is followed by a block are
\* those of that block, also when the name of the class occurs earlier in
\* the text.
C21_OwnMemberRegion ==
  (Returned /\ op = "java") =>
    LET code == JavaText(input)
        decls == OwnBlockDecls(code)
    IN \A i \in 1..Len(decls) :
         /\ ClassBuiltFor(code, decls[i]).name = decls[i].class_name
         /\ ClassBuiltFor(code, decls[i]).attributes =
              JavaAttributes(OwnBlock(code, decls[i]), 1)
         /\ ClassBuiltFor(code, decls[i]).methods =
              JavaMethods(OwnBlock(code, decls[i]), 1)

(***************************************************************************)
(* C22: literals that begin with an allow-listed literal.                  *)
(***************************************************************************)

\* The literals of the inputs that begin with 0, 1, -1 or 100 and are none
\* of them.
PrefixedLiterals == {"10", "15", "1000", "0.5"}

\* C22: a literal 10, 15, 1000 or 0.5 that the magic_numbers pattern
\* matches, in an assignment, return or operator context, gives a
\* magic_numbers finding whose number is the literal, as 42 does.
C22_ExclusionIsEquality ==
  (Analyzed /\ input.kind = "magic"
     /\ input.literal \in PrefixedLiterals \cup {"42"}
     /\ MagicMatches(input.code, 1) # <<>>)
    => output.magic_numbers = <<[number |-> Chars(input.literal)]>>

(***************************************************************************)
(* C23: long methods with nested blocks.                                   *)
(***************************************************************************)

\* The line breaks of the whole text of the input.
LineBreaks(code) == Cardinality({k \in 1..Len(code) : code[k] = NL})

\* C23: a method of more than 30 line breaks gives one long_method
\* finding whatever the nesting of the blocks inside it (none, an `if`, an
\* `if` holding a `for`), and the count of the finding is taken over the
\* whole method, up to its closing brace.
C23_LongMethodAtAnyDepth ==
  (Analyzed /\ input.kind = "method" /\ LineBreaks(input.code) > 30)
    => /\ Len(output.long_method) = 1
       /\ output.long_method[1].name = "m"
       /\ output.long_method[1].lines = LineBreaks(input.code)

(***************************************************************************)
(* C24: folder filtering.                                                  *)
(***************************************************************************)

\* The path lies in the folder or in a subfolder of it: the folder is
\* followed by a separator in the path (every path lies in the folder with
\* the empty name).
InFolder(file_path, folder_path) ==
  \/ folder_path = <<>>
  \/ PathStartsWith(file_path, folder_path \o <<"/">>)

\* The files of the input collection that lie in the folder.
InsideFolder ==
  {i \in 1..Len(input.java_files) :
     InFolder(input.java_files[i].file_path, input.folder_path)}

\* C24: analyze_folder analyzes a file if and only if its path lies in the
\* folder or in a subfolder of it: total_files, total_classes and the
\* reports of the files are those of these files, and a file of a sibling
\* folder whose name starts with the name of the folder counts in none.
C24_FilteredByFolder ==
  Aggregated =>
    /\ output.metrics.total_files = Cardinality(InsideFolder)
    /\ output.metrics.total_classes =
         SumSeq([i \in 1..Len(input.java_files) |->
                   IF i \in InsideFolder THEN input.java_files[i].classes
                   ELSE 0])
    /\ {output.file_results[k].file_path :
          k \in 1..Len(output.file_results)}
         = {input.java_files[i].file_path : i \in InsideFolder}

(***************************************************************************)
(* C25: cyclomatic complexity.                                             *)
(***************************************************************************)

\* C25: the cyclomatic complexity of a text is 1 plus the number of its
\* conditionals, loops, switch cases and catch handlers, each counted
\* once: 1 for a text with none, and an if statement with an else block
\* counts as one construct.
C25_OnePlusConstructs ==
  (Estimated /\ input.kind = "branches") =>
    output.cyclomatic_complexity =
      1 + SumSeq([k \in 1..Len(input.statements) |->
                    Constructs(input.statements[k])])

(***************************************************************************)
(* C26: visibility of Python methods.                                      *)
(***************************************************************************)

\* The visibility by name convention: private for a name that starts with
\* two underscores and does not end with two, protected for a name that
\* starts with exactly one underscore, public for every other name.
ConventionVisibility(id) ==
  IF StartsWith(id, <<"_", "_">>) /\ ~EndsWith(id, <<"_", "_">>) THEN "-"
  ELSE IF StartsWith(id, <<"_">>) /\ ~StartsWith(id, <<"_", "_">>) THEN "#"
  ELSE "+"

\* C26: every method of every class of the model the Python extractor
\* returns has the visibility of the name convention; a dunder name such
\* as __init__ is public.
C26_MethodVisibility ==
  (Returned /\ op = "python") =>
    \A k \in 1..Len(Classes) :
      \A j \in 1..Len(Classes[k].methods) :
        Classes[k].methods[j].visibility =
          ConventionVisibility(Classes[k].methods[j].name)

(***************************************************************************)
(* The class-body scan, step by step.                                      *)
(*                                                                         *)
(* JavaParser.parse and JavaScriptParser.parse as the loops they are: the  *)
(* loop over the declarations, and inside it the bracket-balancing loop,   *)
(* one iteration per step.  The text is the token sequence of the input;   *)
(* a brace is a token of its own, so a position of the scan is a token     *)
(* index and the 0-based  class_end < len(code)  reads                     *)
(* class_end <= Len(code).                                                 *)
(***************************************************************************)

\* The declarations whose body is scanned: the Java declarations with a
\* '{' after their name (the others are skipped), every JavaScript match.
ScannedDecls(language, code) ==
  IF language = "java"
  THEN SelectSeq(JavaClassMatches(code, 1),
                 LAMBDA m : JavaClassStart(code, m) # 0)
  ELSE JSClassMatches(code, 1)

\* The position of the '{' that opens the body of declaration m.
ScanStart(language, code, m) ==
  IF language = "java" THEN JavaClassStart(code, m) ELSE JSClassStart(code, m)

\* The loop condition  bracket_count > 0 and class_end < len(code).
ScanContinues(code, s) == s.bracket_count > 0 /\ s.class_end <= Len(code)

\* An iteration that steps over the token after one that is no brace.
ScanAdvance_SkipsOne(code, s) ==
  [s EXCEPT !.class_end = IF code[s.class_end] \in {"{", "}"} THEN @ + 1
                          ELSE @ + 2,
            !.bracket_count =
               IF code[s.class_end] = "{" THEN @ + 1
               ELSE IF code[s.class_end] = "}" THEN @ - 1
               ELSE @]

\* One iteration of the loop body.
ScanAdvance(code, s) ==
  [s EXCEPT !.class_end = @ + 1,
            !.bracket_count =
               IF code[s.class_end] = "{" THEN @ + 1
               ELSE IF code[s.class_end] = "}" THEN @ - 1
               ELSE @]

\* The relationships the extraction appends.
ScanRelationships(language, code) ==
  IF language = "java" THEN JavaParser_parse(code).relationships
  ELSE JavaScriptParser_parse(code).relationships

\* The classes built from the bodies the scans delimited.
ScanClasses(language, decls, bodies) ==
  [k \in 1..Len(bodies) |->
     IF language = "java" THEN JavaClassOf(decls[k], bodies[k])
     ELSE JSClassOf(decls[k], bodies[k])]

\* The locals of parse before it is entered.
NoScan ==
  [code |-> <<>>, decls |-> <<>>, bodies |-> <<>>, class_start |-> 0,
   class_end |-> 0, bracket_count |-> 0]

MaxScanDecls == 2

\* The texts scanned: declarations in every form of body (closed, nested,
\* never closed, absent); an extends or implements clause lies before the
\* body and is left out.
JavaScanInputs ==
  SeqsUpTo({d \in JavaGeneralDecls : d.impl = <<>> /\ d.ext = None},
           MaxScanDecls)
    \cup JavaPlainInputs

JavaScriptScanInputs ==
  SeqsUpTo({c \in JSGeneralClasses : c.ext = None}, MaxScanDecls)
    \cup JSPlainInputs

\* An extractor before its parse is called.
InitScan ==
  /\ pc = "ready"
  /\ op = "java"
  /\ input = <<>>
  /\ output = NoScan
  /\ catalog = ShippedCatalog

\* parse(code) is entered on an extractor: the text is matched against its
\* class pattern.
EnterParse ==
  /\ pc = "ready"
  /\ \E language \in {"java", "javascript"} :
       \E text \in IF language = "java" THEN JavaScanInputs
                   ELSE JavaScriptScanInputs :
         LET code == IF language = "java" THEN JavaText(text)
                     ELSE JSText(text)
         IN /\ op' = language
            /\ input' = text
            /\ output' = [NoScan EXCEPT !.code = code,
                                        !.decls = ScannedDecls(language, code)]
  /\ pc' = "loop"
  /\ UNCHANGED catalog

\* The next declaration: its body opening is found and the scan set up.
FindBody ==
  /\ pc = "loop"
  /\ Len(output.bodies) < Len(output.decls)
  /\ LET class_start ==
           ScanStart(op, output.code, output.decls[Len(output.bodies) + 1])
     IN output' = [output EXCEPT !.class_start = class_start,
                                 !.class_end = class_start + 1,
                                 !.bracket_count = 1]
  /\ pc' = "scan"
  /\ UNCHANGED <<op, input, catalog>>

\* One iteration of the bracket-balancing loop.
ScanStep ==
  /\ pc = "scan"
  /\ ScanContinues(output.code, output)
  /\ output' = ScanAdvance(output.code, output)
  /\ UNCHANGED <<pc, op, input, catalog>>

\* The loop is left and the body sliced out.
EndScan ==
  /\ pc = "scan"
  /\ ~ScanContinues(output.code, output)
  /\ output' = [output EXCEPT
                  !.bodies = Append(@, SliceBody(output.code, output.class_start,
                                                  output))]
  /\ pc' = "loop"
  /\ UNCHANGED <<op, input, catalog>>

\* Every declaration was handled: the model is returned.
ReturnModel ==
  /\ pc = "loop"
  /\ Len(output.bodies) = Len(output.decls)
  /\ output' = UMLDiagram(ScanClasses(op, output.decls, output.bodies),
                          ScanRelationships(op, output.code))
  /\ pc' = "done"
  /\ UNCHANGED <<op, input, catalog>>

NextScan == EnterParse \/ FindBody \/ ScanStep \/ EndScan \/ ReturnModel

SpecScan == InitScan /\ [][NextScan]_vars

\* The interpreter runs the statements of parse one after the other: a
\* loop iteration, a loop exit or a loop entry that can be taken is taken.
SpecScanFair ==
  /\ SpecScan
  /\ WF_vars(EnterParse) /\ WF_vars(FindBody)
  /\ WF_vars(ScanStep) /\ WF_vars(EndScan)

\* Every declaration was scanned: parse is at its return statement.
AllScanned == pc = "loop" /\ Len(output.bodies) = Len(output.decls)

\* C27: the class-body brace scan of the Java and JavaScript extractors
\* terminates on every input.  While a scan runs each step advances the
\* position by one; the position never passes the end of the text; a scan
\* that ends with a brace still open ends at the end of the text; every
\* run gets through all its scans to the return statement; and the step
\* taken there returns a model.
C27_ScanTerminates ==
  /\ [][(pc = "scan" /\ pc' = "scan")
          => output'.class_end = output.class_end + 1]_vars
  /\ [](pc = "scan" => output.class_end <= Len(output.code) + 1)
  /\ [][(pc = "scan" /\ pc' = "loop" /\ output.bracket_count > 0)
          => output.class_end = Len(output.code) + 1]_vars
  /\ <>AllScanned
  /\ [][AllScanned => (pc' = "done" /\ output'.ok)]_vars

\* A model was returned for a text whose last class body is never closed,
\* and holds the class of that body.
C27_Witness ==
  /\ pc = "done" /\ output.ok
  /\ input # <<>> /\ input[Len(input)].form = "open"
  /\ \E k \in 1..Len(output.classes) :
       output.classes[k].name = input[Len(input)].name

\* C28: in every model an extractor returns, the source of every
\* relationship is the name of a class of that model.
C28_SourcesPresent ==
  (Returned /\ op \in {"java", "python", "javascript"})
    => \A r \in 1..Len(Rels) :
         \E k \in 1..Len(Classes) : Classes[k].name = Rels[r].source

(***************************************************************************)
(* app.py, create_class_editor: the method buffer of the class editor.     *)
(*                                                                         *)
(* A parameter list is a Python list object: the lists are numbered in     *)
(* the order of their creation and a method dict, or a session key         *)
(* params_<i>, holds the number of the list it refers to.  The content of  *)
(* a list is its length.  Method i of the buffer is current_methods[i]     *)
(* here and current_methods[i-1], with the key params_<i-1>, in the code;  *)
(* params is the function from the keys that are set to their lists.       *)
(***************************************************************************)

MaxMethods == 3

MaxEditorLists == 4

MaxEditorParams == 2

\* seq.pop(i)
RemoveAt(seq, i) == SubSeq(seq, 1, i - 1) \o SubSeq(seq, i + 1, Len(seq))

\* One run of the script over the methods i.. of the buffer: a key
\* params_<i> that is not set is set to the method's own list, then the
\* method's "parameters" is set to the list of the key.
RECURSIVE RenderMethods(_, _)
RenderMethods(s, i) ==
  IF i > Len(s.current_methods) THEN s
  ELSE LET list == IF i \in DOMAIN s.params THEN s.params[i]
                   ELSE s.current_methods[i]
       IN RenderMethods([s EXCEPT !.params = (i :> list) @@ @,
                                  !.current_methods[i] = list], i + 1)

\* The buffer when the editor is first shown.
EmptyBuffer ==
  [current_methods |-> <<>>,
   params |-> [i \in {} |-> 0],
   lists |-> [l \in 1..MaxEditorLists |-> 0],
   created |-> 0]

InitEditor ==
  /\ pc = "shown"
  /\ op = "open"
  /\ input = 0
  /\ output = EmptyBuffer
  /\ catalog = ShippedCatalog

\* "Add Method": a method with a new, empty parameter list is appended and
\* the script runs again.
AddMethod ==
  /\ pc = "shown"
  /\ Len(output.current_methods) < MaxMethods
  /\ output.created < MaxEditorLists
  /\ LET new == output.created + 1
     IN output' = RenderMethods(
                    [output EXCEPT !.current_methods = Append(@, new),
                                   !.lists[new] = 0,
                                   !.created = new], 1)
  /\ op' = "add_method"
  /\ input' = Len(output.current_methods) + 1
  /\ UNCHANGED <<pc, catalog>>

\* "Delete Method" of method i: the method is popped, the key params_<i>
\* deleted, and the script runs again.
DeleteMethod ==
  /\ pc = "shown"
  /\ \E i \in 1..Len(output.current_methods) :
       /\ output' = RenderMethods(
                      [output EXCEPT !.current_methods = RemoveAt(@, i),
                                     !.params =
                                        [k \in DOMAIN @ \ {i} |-> @[k]]],
                      1)
       /\ input' = i
  /\ op' = "delete_method"
  /\ UNCHANGED <<pc, catalog>>

\* "Add Parameter" of method i: a parameter is appended to the list of the
\* key params_<i>.
AddParameter ==
  /\ pc = "shown"
  /\ \E i \in 1..Len(output.current_methods) :
       /\ output.lists[output.params[i]] < MaxEditorParams
       /\ output' = RenderMethods(
                      [output EXCEPT !.lists[output.params[i]] = @ + 1], 1)
       /\ input' = i
  /\ op' = "add_parameter"
  /\ UNCHANGED <<pc, catalog>>

\* "Delete Param" of method i: a parameter is popped from the list of the
\* key params_<i>.
DeleteParam ==
  /\ pc = "shown"
  /\ \E i \in 1..Len(output.current_methods) :
       /\ output.lists[output.params[i]] > 0
       /\ output' = RenderMethods(
                      [output EXCEPT !.lists[output.params[i]] = @ - 1], 1)
       /\ input' = i
  /\ op' = "delete_param"
  /\ UNCHANGED <<pc, catalog>>

NextEditor == AddMethod \/ DeleteMethod \/ AddParameter \/ DeleteParam

SpecEditor == InitEditor /\ [][NextEditor]_vars

\* The parameters of method i of the buffer.
ParametersOf(i) == output.lists[output.current_methods[i]]

\* C29: in the editor buffer a method just created by Add Method has an
\* empty parameter list, and no two methods share one parameter list.
C29_OwnParameterLists ==
  /\ op = "add_method" => ParametersOf(Len(output.current_methods)) = 0
  /\ \A i, j \in 1..Len(output.current_methods) :
       i # j => output.current_methods[i] # output.current_methods[j]

(***************************************************************************)
(* app.py: the "# File: <path>" convention.  process_zip_file joins the    *)
(* files of an archive into one text, the Code Analysis tab splits that    *)
(* text into files again.                                                  *)
(*                                                                         *)
(* A text is a sequence of pieces: a line break, a blank, the marker       *)
(* "# File: ", a word, or a path (one piece, without blanks).              *)
(***************************************************************************)

Marker == "# File: "

Blank == " "

IsWhitespace(t) == t \in {NL, Blank}

\* all_code after the loop over the files: for each file
\*   "\n\n# File: <path>\n<code>"  is added.
RECURSIVE CombinedCode(_)
CombinedCode(files) ==
  IF files = <<>> THEN <<>>
  ELSE <<NL, NL, Marker, Head(files).path, NL>> \o Head(files).code
         \o CombinedCode(Tail(files))

\* text.split(sep), sep one piece: the stretches between its occurrences.
SplitOn(text, sep) ==
  LET at == {i \in 1..Len(text) : text[i] = sep}
      cuts == [k \in 0..(Cardinality(at) + 1) |->
                 IF k = 0 THEN 0
                 ELSE IF k = Cardinality(at) + 1 THEN Len(text) + 1
                 ELSE CHOOSE i \in at : Cardinality({j \in at : j < i}) = k - 1]
  IN [k \in 1..(Cardinality(at) + 1) |->
        SubSeq(text, cuts[k - 1] + 1, cuts[k] - 1)]

\* text.strip()
Strip(text) ==
  LET kept == {i \in 1..Len(text) : ~IsWhitespace(text[i])}
  IN IF kept = {} THEN <<>>
     ELSE SubSeq(text, CHOOSE i \in kept : \A j \in kept : i <= j,
                 CHOOSE i \in kept : \A j \in kept : j <= i)

\* text.split("\n", 1)
SplitFirstLine(text) ==
  LET breaks == {i \in 1..Len(text) : text[i] = NL}
  IN IF breaks = {} THEN <<text>>
     ELSE LET b == CHOOSE i \in breaks : \A j \in breaks : i <= j
          IN <<SubSeq(text, 1, b - 1), SubSeq(text, b + 1, Len(text))>>

\* The loop over code_chunks[1:]: a chunk with a first line and a rest is
\* appended as a file, any other chunk is left out.
RECURSIVE JavaFiles(_, _)
JavaFiles(code_chunks, k) ==
  IF k > Len(code_chunks) THEN <<>>
  ELSE LET lines == SplitFirstLine(Strip(code_chunks[k]))
       IN (IF Len(lines) >= 2
           THEN <<[file_path |-> Strip(lines[1]), content |-> lines[2]]>>
           ELSE <<>>) \o JavaFiles(code_chunks, k + 1)

MaxFiles == 3

MaxPieces == 2

\* The files of an archive have paths of their own.
ArchivePaths == <<"A.java", "B.java", "C.java", "D.java">>

\* The content of a file: up to MaxPieces pieces, the marker among them.
FileContents == {<<>>} \cup SeqsUpTo({NL, Blank, "x", Marker}, MaxPieces)

Archives ==
  {[i \in 1..n |-> [path |-> ArchivePaths[i], code |-> codes[i]]] :
     n \in 0..MaxFiles, codes \in [1..MaxFiles -> FileContents]}

InitMarker ==
  /\ pc = "ready"
  /\ op = "zip"
  /\ input \in Archives
  /\ output = <<>>
  /\ catalog = ShippedCatalog

\* process_zip_file and its caller: the combined text is stored as
\* uploaded_code when it is not empty.
process_zip_file ==
  /\ pc = "ready"
  /\ output' = CombinedCode(input)
  /\ pc' = IF CombinedCode(input) # <<>> THEN "uploaded" ELSE "nothing"
  /\ UNCHANGED <<op, input, catalog>>

\* The Code Analysis tab: uploaded_code is split into java_files.
SplitFiles ==
  /\ pc = "uploaded"
  /\ output' = JavaFiles(SplitOn(output, Marker), 2)
  /\ pc' = "split"
  /\ UNCHANGED <<op, input, catalog>>

NextMarker == process_zip_file \/ SplitFiles

SpecMarker == InitMarker /\ [][NextMarker]_vars

\* C30: when N files are joined with the "# File: <path>" header and the
\* result is split again, exactly N entries are recovered, the i-th with
\* the path of the i-th file, whatever the files hold.
C30_MarkerRoundTrip ==
  pc = "split"
    => /\ Len(output) = Len(input)
       /\ \A i \in 1..Len(input) : output[i].file_path = <<input[i].path>>

=============================================================================
